---- MODULE Spec2Model ----
(***************************************************************************)
(* Model of the blast-furnace data pipeline (evonith_dailylive_datafeed): *)
(* the run ledger (run_tracker.py), the batched store writer and the      *)
(* per-run file handling (influx_writer.py), the per-unit orchestration   *)
(* (api_client.process_datewise), the daily/range sweep and the live       *)
(* iteration of main(), the field classification and point building of    *)
(* bf2_rename_map.py, and the CSV and text writers of write_to_file.py.    *)
(***************************************************************************)
EXTENDS Integers, Sequences, FiniteSets, TLC

VARIABLES
    entry,      \* which program entry point this behaviour runs
    pc,         \* control position of the (single-threaded) process
    args,       \* the parsed command line (argparse Namespace)
    today,      \* now_utc.date()
    units,      \* main: the (date, range) units still to hand to process_datewise
    pd,         \* process_datewise: its locals
    pw,         \* process_and_write: its arguments and locals
    w,          \* write_to_influxdb: its arguments and locals
    fs,         \* the files of the output directory: path -> text
    store,      \* the client.write calls made to the time-series store, in order
    runs,       \* the rows of the ledger's runs table
    nextId,     \* sqlite's AUTOINCREMENT counter of the runs table
    clients,    \* store clients opened and not yet closed
    clock,      \* logical wall clock (datetime.now())
    hist,       \* history of the calls made, for the temporal claims
    sleeps,     \* the time.sleep calls made, in order
    bp,         \* build_points: its arguments and its result
    live,       \* main: the locals of the live branch
    argv,       \* main: the command line as parsed, before main rewrites it
    schema,     \* the tables of the ledger database
    dc,         \* decode harness: the payload and what the decoders gave
    ft,         \* fetch_api_data, fetch_api_data_live: arguments and locals
    procs       \* two-process harness: the locals of each process

vars == <<entry, pc, args, today, units, pd, pw, w, fs, store, runs, nextId,
          clients, clock, hist, sleeps, bp, live, argv, schema, dc, ft, procs>>

(***************************************************************************)
(* Bounds of the model.                                                    *)
(***************************************************************************)
MaxDay == 2          \* calendar days are 1..MaxDay
MaxCalls == 3        \* ledger harness: number of log_run / init_db calls
MaxFileLen == 5      \* writer harness: characters in the source file
MaxBatch == 2        \* writer harness: batch_size ranges over 1..MaxBatch
MaxRecs == 2         \* process_and_write harness: records in cleaned_list

None == <<"None">>   \* Python's None

Days == 1..MaxDay
Ranges == {1, 2}

(***************************************************************************)
(* Python helpers.                                                         *)
(***************************************************************************)
\* str(i) for the small integers the pipeline formats
str(i) == <<"str", i>>

\* int(b) of a bool
int(b) == IF b THEN 1 ELSE 0

\* json.dumps(vars(args)): the serialized parameters
json_dumps(a) == <<"json", a>>

(***************************************************************************)
(* Run ledger: run_tracker.py                                              *)
(***************************************************************************)
\* the natural key of a row: UNIQUE(date_run, range, mode)
KeyOf(row) == <<row.date_run, row.range, row.mode>>

\* the runs table as init_db creates it: its columns and its UNIQUE key
RunsTable ==
    [ name    |-> "runs",
      columns |-> <<"id", "run_time", "date_run", "range", "mode",
                    "parameters", "process_id", "success", "num_records",
                    "log_path", "points_file_path">>,
      unique  |-> <<"date_run", "range", "mode">> ]

\* a runs table that an earlier version of the program left in the file
LegacyRunsTable ==
    [ name    |-> "runs",
      columns |-> <<"id", "run_time", "date_run", "range", "mode">>,
      unique  |-> <<"date_run", "range", "mode">> ]

\* is there a table named runs among the tables tabs
HasRuns(tabs) == \E t \in tabs : t.name = "runs"

\* init_db, the tables: CREATE TABLE IF NOT EXISTS creates the runs table
\* when the file has none and leaves an existing one as it is
init_db_tables(tabs) == IF HasRuns(tabs) THEN tabs ELSE tabs \cup {RunsTable}

\* (mutant) init_db that drops the table and creates it again
init_db_recreate(rs) == {}

\* init_db, the rows: CREATE TABLE IF NOT EXISTS touches no row
init_db(rs) == rs

\* the row an INSERT would add for one log_run call
InsertedRow(id, c) ==
    [ id |-> id,
      run_time |-> c.run_time,
      date_run |-> c.date_run,
      range |-> c.range_param,
      mode |-> c.mode,
      parameters |-> json_dumps(c.parameters),
      process_id |-> c.process_id,
      success |-> int(c.success),
      num_records |-> c.num_records,
      log_path |-> c.log_path,
      points_file_path |-> c.points_file_path ]

\* ON CONFLICT(date_run, range, mode) DO UPDATE SET ...: the seven columns
\* taken from the excluded row, id and key kept
UpdatedRow(old, new) ==
    [ old EXCEPT
        !.run_time = new.run_time,
        !.parameters = new.parameters,
        !.process_id = new.process_id,
        !.success = new.success,
        !.num_records = new.num_records,
        !.log_path = new.log_path,
        !.points_file_path = new.points_file_path ]

\* a plausible bug: plain INSERT without the conflict clause
log_run_insert_only(rs, id, c) == rs \cup {InsertedRow(id, c)}

\* a plausible bug: the upsert forgets num_records in its SET list
log_run_stale_count(rs, id, c) ==
    LET new == InsertedRow(id, c)
        hit == {r \in rs : KeyOf(r) = KeyOf(new)}
    IN  IF hit = {}
        THEN rs \cup {new}
        ELSE (rs \ hit) \cup
             {[UpdatedRow(r, new) EXCEPT !.num_records = r.num_records] : r \in hit}

\* (mutant) the conflict target leaves mode out of the key
log_run_key_without_mode(rs, id, c) ==
    LET new == InsertedRow(id, c)
        hit == {r \in rs : r.date_run = new.date_run /\ r.range = new.range}
    IN  IF hit = {}
        THEN rs \cup {new}
        ELSE (rs \ hit) \cup {UpdatedRow(r, new) : r \in hit}

\* log_run: the rows of the table after the INSERT ... ON CONFLICT DO UPDATE
log_run(rs, id, c) ==
    LET new == InsertedRow(id, c)
        hit == {r \in rs : KeyOf(r) = KeyOf(new)}
    IN  IF hit = {}
        THEN rs \cup {new}
        ELSE (rs \ hit) \cup {UpdatedRow(r, new) : r \in hit}

\* AUTOINCREMENT: the INSERT takes the next id from sqlite_sequence and
\* the counter keeps it, also when the statement ends as the DO UPDATE of
\* the conflict clause
log_run_nextId(rs, id, c) == id + 1

(***************************************************************************)
(* Ledger harness: any sequence of init_db and log_run calls.             *)
(***************************************************************************)
\* strftime(CONFIG["DATE_FORMAT"]) of a date
DateFmt(d) == <<"DATE_FORMAT", d>>

\* os.getpid()
Pid == 4242

LogPath(mode, d, x) == <<"logs", mode, d, x, Pid>>

\* the values one ledger call carries besides its key
LedgerValues ==
    { [ parameters |-> [v |-> v], process_id |-> Pid + v,
        success |-> s,
        num_records |-> IF s THEN v ELSE 0,
        log_path |-> IF v = 1 THEN None ELSE LogPath("daily", 1, 1),
        points_file_path |-> IF s THEN <<"output", "date", v>> ELSE None ]
      : v \in 1..2, s \in BOOLEAN }

LedgerKeys ==
    { [date_run |-> DateFmt(1), range_param |-> str(1), mode |-> "daily"],
      [date_run |-> DateFmt(1), range_param |-> str(2), mode |-> "daily"],
      [date_run |-> DateFmt(2), range_param |-> str(1), mode |-> "daily"],
      [date_run |-> DateFmt(1), range_param |-> str(1), mode |-> "live"] }

LedgerCall(k, v, t) ==
    [ run_time |-> t, date_run |-> k.date_run, range_param |-> k.range_param,
      mode |-> k.mode, parameters |-> v.parameters, process_id |-> v.process_id,
      success |-> v.success, num_records |-> v.num_records,
      log_path |-> v.log_path, points_file_path |-> v.points_file_path ]

NoFrame == <<>>

InitLedger ==
    /\ entry = "ledger"
    /\ pc = "ledger"
    /\ args = NoFrame
    /\ today = 1
    /\ units = <<>>
    /\ pd = NoFrame
    /\ pw = NoFrame
    /\ w = NoFrame
    /\ fs = <<>>
    /\ store = <<>>
    /\ runs = {}
    /\ nextId = 1
    /\ clients = 0
    /\ clock = 0
    /\ hist = <<>>
    /\ sleeps = <<>>
    /\ bp = NoFrame
    /\ live = NoFrame
    /\ argv = NoFrame
    /\ schema \in {{}, {RunsTable}, {LegacyRunsTable}}
    /\ dc = NoFrame
    /\ ft = NoFrame
    /\ procs = NoFrame

LedgerInitDb ==
    /\ pc = "ledger"
    /\ Len(hist) < MaxCalls
    /\ schema' = init_db_tables(schema)
    /\ runs' = init_db(runs)
    /\ hist' = Append(hist, <<"init_db">>)
    /\ UNCHANGED <<entry, pc, args, today, units, pd, pw, w, fs, store, nextId,
                   clients, clock, sleeps, bp, live, argv, dc, ft, procs>>

\* log_run is called on a file whose runs table init_db created
LedgerLogRun ==
    /\ pc = "ledger"
    /\ RunsTable \in schema
    /\ Len(hist) < MaxCalls
    /\ \E k \in LedgerKeys, v \in LedgerValues :
         LET c == LedgerCall(k, v, clock + 1)
         IN  /\ runs' = log_run(runs, nextId, c)
             /\ nextId' = log_run_nextId(runs, nextId, c)
             /\ hist' = Append(hist, <<"log_run", c>>)
    /\ clock' = clock + 1
    /\ UNCHANGED <<entry, pc, args, today, units, pd, pw, w, fs, store, clients,
                   sleeps, bp, live, argv, schema, dc, ft, procs>>

NextLedger == LedgerInitDb \/ LedgerLogRun

SpecLedger == InitLedger /\ [][NextLedger]_vars

\* the log_run calls of the history, in call order
LogRunCalls == SelectSeq(hist, LAMBDA e : e[1] = "log_run")

\* the key a log_run call addresses
CallKey(c) == <<c.date_run, c.range_param, c.mode>>

\* index of the most recent log_run call for key k (0 when there is none)
LastCallIdx(k) ==
    LET idx == {i \in 1..Len(LogRunCalls) : CallKey(LogRunCalls[i][2]) = k}
    IN  IF idx = {} THEN 0 ELSE CHOOSE i \in idx : \A j \in idx : j <= i

\* row r carries the values of call c
RowCarries(r, c) ==
    /\ r.run_time = c.run_time
    /\ r.parameters = json_dumps(c.parameters)
    /\ r.process_id = c.process_id
    /\ r.success = int(c.success)
    /\ r.num_records = c.num_records
    /\ r.log_path = c.log_path
    /\ r.points_file_path = c.points_file_path

\* C1: after any sequence of log_run calls the runs table holds at most one
\* row per (date_run, range, mode) key, and the row of a key carries the
\* run_time, parameters, process_id, success, num_records, log_path and
\* points_file_path of the most recent call for that key.
C1_UpsertLastWriteWins ==
    /\ \A r1, r2 \in runs : KeyOf(r1) = KeyOf(r2) => r1 = r2
    /\ \A r \in runs :
         /\ LastCallIdx(KeyOf(r)) > 0
         /\ RowCarries(r, LogRunCalls[LastCallIdx(KeyOf(r))][2])
    /\ \A i \in 1..Len(LogRunCalls) :
         \E r \in runs : KeyOf(r) = CallKey(LogRunCalls[i][2])

\* C1 witness: a key was logged twice with different num_records and the
\* table holds one row for it, with the second call's count.
C1_Witness ==
    \E i, j \in 1..Len(LogRunCalls) :
        /\ i < j
        /\ CallKey(LogRunCalls[i][2]) = CallKey(LogRunCalls[j][2])
        /\ LogRunCalls[i][2].num_records # LogRunCalls[j][2].num_records
        /\ Cardinality({r \in runs : KeyOf(r) = CallKey(LogRunCalls[j][2])}) = 1
        /\ \A r \in runs : KeyOf(r) = CallKey(LogRunCalls[j][2])
              => r.num_records = LogRunCalls[j][2].num_records

\* the step is one init_db call
InitDbStep == hist' = Append(hist, <<"init_db">>)

\* C27: init_db is idempotent: a call on a file that already has a runs
\* table leaves the table's schema and every row (and the id counter) as
\* they were, and whatever the file held, a further call after this one
\* would change neither the tables nor the rows.
C27_InitDbIdempotent ==
    [][ InitDbStep =>
          /\ runs' = runs
          /\ nextId' = nextId
          /\ HasRuns(schema) => schema' = schema
          /\ HasRuns(schema')
          /\ init_db_tables(schema') = schema'
          /\ init_db(runs') = runs' ]_vars

\* C27 witness: init_db has just been called on a ledger that holds rows
C27_Witness ==
    /\ entry = "ledger"
    /\ hist # <<>>
    /\ hist[Len(hist)][1] = "init_db"
    /\ runs # {}
    /\ schema = {RunsTable}

(***************************************************************************)
(* Text: a file's content and a line are sequences of characters.         *)
(***************************************************************************)
NL == "\n"
Chars == {"a", "b", " ", NL}
Whitespace == {" ", NL}

\* s.lstrip(cs), s.rstrip(cs)
RECURSIVE lstrip(_, _)
lstrip(s, cs) == IF s # <<>> /\ Head(s) \in cs THEN lstrip(Tail(s), cs) ELSE s

RECURSIVE rstrip(_, _)
rstrip(s, cs) ==
    IF s # <<>> /\ s[Len(s)] \in cs THEN rstrip(SubSeq(s, 1, Len(s) - 1), cs) ELSE s

\* line.strip()
strip(s) == rstrip(lstrip(s, Whitespace), Whitespace)

\* the position of the first newline of a text, 0 when it has none
FirstNL(t) ==
    IF \E i \in 1..Len(t) : t[i] = NL
    THEN CHOOSE i \in 1..Len(t) : t[i] = NL /\ \A j \in 1..(i - 1) : t[j] # NL
    ELSE 0

\* "for line in file": the lines of a text, each with its newline
RECURSIVE file_lines(_)
file_lines(t) ==
    IF t = <<>> THEN <<>>
    ELSE IF FirstNL(t) = 0 THEN <<t>>
    ELSE <<SubSeq(t, 1, FirstNL(t))>> \o file_lines(SubSeq(t, FirstNL(t) + 1, Len(t)))

\* "\n".join(batch)
RECURSIVE join(_)
join(batch) ==
    IF batch = <<>> THEN <<>>
    ELSE IF Len(batch) = 1 THEN batch[1]
    ELSE batch[1] \o <<NL>> \o join(Tail(batch))

(***************************************************************************)
(* write_to_influxdb: influx_writer.py                                     *)
(***************************************************************************)
TextFile(t) == [gz |-> FALSE, text |-> t]

\* a plausible bug: the flush test uses > instead of >=
RECURSIVE read_lines_off_by_one(_, _, _)
read_lines_off_by_one(lines, batch, b) ==
    IF lines = <<>> THEN [lines |-> <<>>, batch |-> batch, flush |-> FALSE]
    ELSE LET line == Head(lines)
             nb == IF strip(line) # <<>>
                   THEN Append(batch, rstrip(line, {NL})) ELSE batch
         IN  IF Len(nb) > b
             THEN [lines |-> Tail(lines), batch |-> nb, flush |-> TRUE]
             ELSE read_lines_off_by_one(Tail(lines), nb, b)

\* the body of "for line in file" up to the next flush: blank lines are
\* skipped, the others lose their newline and join the batch; the batch is
\* flushed as soon as it holds batch_size lines
RECURSIVE read_lines(_, _, _)
read_lines(lines, batch, b) ==
    IF lines = <<>> THEN [lines |-> <<>>, batch |-> batch, flush |-> FALSE]
    ELSE LET line == Head(lines)
             nb == IF strip(line) # <<>>
                   THEN Append(batch, rstrip(line, {NL})) ELSE batch
         IN  IF Len(nb) >= b
             THEN [lines |-> Tail(lines), batch |-> nb, flush |-> TRUE]
             ELSE read_lines(Tail(lines), nb, b)

\* the frame of a call write_to_influxdb(filename, args, batch_size)
WFrame(filename, batch_size) ==
    [filename |-> filename, batch_size |-> batch_size,
     lines |-> <<>>, batch |-> <<>>, wrote |-> 0, raised |-> FALSE]

\* (mutant) in live mode a raising process_and_write is caught and the
\* iteration goes on to its ledger step
PWRaisePc_live_logs ==
    IF entry = "main" THEN "pd_except"
    ELSE IF entry = "live" THEN "live_log" ELSE "raised"

\* where control goes when process_and_write raises
PWRaisePc == IF entry = "main" THEN "pd_except" ELSE "raised"

\* where control goes when write_to_influxdb returns or raises
WReturnPc == IF entry = "writer" THEN "done" ELSE "pw_retain"
WRaisePc == IF entry = "writer" THEN "raised" ELSE PWRaisePc

\* a plausible bug: a failed batch write is logged and the loop goes on
WFailPc_swallow == "w_loop"

\* a failed client.write is logged and re-raised
WFailPc == WRaisePc

\* time.sleep(DB_CONFIG.get("WRITE_DELAY", default)): the configured delay,
\* or the default of the call when the key is absent
ConfigDelay(default) == <<"time.sleep", "WRITE_DELAY", default>>

\* time.sleep(wait_time) after a batch of the loop was written and the
\* client closed: wait_time = DB_CONFIG.get("WRITE_DELAY", 5)
WriteDelay == ConfigDelay("5")

\* the wait after the final batch: 0.5 if len(batch) < 100 else
\* DB_CONFIG.get("WRITE_DELAY", 0.5)
FinalWriteDelay(batch) ==
    IF Len(batch) < 100 THEN <<"time.sleep", "0.5">> ELSE ConfigDelay("0.5")

\* open(filename, "r"): FileNotFoundError when the file is absent
w_open ==
    /\ pc = "w_open"
    /\ IF w.filename \in DOMAIN fs
       THEN /\ w' = [w EXCEPT !.lines = file_lines(fs[w.filename].text)]
            /\ pc' = "w_loop"
       ELSE /\ pc' = WRaisePc
            /\ w' = [w EXCEPT !.raised = TRUE]
    /\ UNCHANGED <<entry, args, today, units, pd, pw, fs, store, runs, nextId,
                   clients, clock, hist, sleeps, bp, live, argv, schema, dc, ft,
                   procs>>

\* the loop reaches a full batch: one client.write call, which succeeds
\* (the client is closed, the batch reset) or raises (the client stays open)
w_batch ==
    /\ pc = "w_loop"
    /\ LET r == read_lines(w.lines, w.batch, w.batch_size)
       IN  /\ r.flush
           /\ \E ok \in BOOLEAN :
                /\ store' = Append(store, [record |-> join(r.batch), ok |-> ok])
                /\ IF ok
                   THEN /\ w' = [w EXCEPT !.lines = r.lines, !.batch = <<>>,
                                          !.wrote = @ + Len(r.batch)]
                        /\ pc' = "w_loop"
                        /\ clients' = clients
                        /\ sleeps' = Append(sleeps, WriteDelay)
                   ELSE /\ w' = [w EXCEPT !.lines = r.lines, !.batch = r.batch,
                                          !.wrote = @ + Len(r.batch),
                                          !.raised = TRUE]
                        /\ pc' = WFailPc
                        /\ clients' = clients + 1
                        /\ sleeps' = sleeps
    /\ UNCHANGED <<entry, args, today, units, pd, pw, fs, runs, nextId, clock,
                   hist, bp, live, argv, schema, dc, ft, procs>>

\* the file is exhausted: "if batch:" writes the remaining lines
w_final ==
    /\ pc = "w_loop"
    /\ LET r == read_lines(w.lines, w.batch, w.batch_size)
       IN  /\ ~r.flush
           /\ IF r.batch # <<>>
              THEN \E ok \in BOOLEAN :
                     /\ store' = Append(store, [record |-> join(r.batch), ok |-> ok])
                     /\ w' = [w EXCEPT !.lines = <<>>, !.batch = r.batch,
                                       !.wrote = @ + Len(r.batch),
                                       !.raised = ~ok]
                     /\ pc' = IF ok THEN WReturnPc ELSE WFailPc
                     /\ clients' = IF ok THEN clients ELSE clients + 1
                     /\ sleeps' = IF ok THEN Append(sleeps, FinalWriteDelay(r.batch))
                                  ELSE sleeps
              ELSE /\ store' = store
                   /\ w' = [w EXCEPT !.lines = <<>>]
                   /\ pc' = WReturnPc
                   /\ clients' = clients
                   /\ sleeps' = sleeps
    /\ UNCHANGED <<entry, args, today, units, pd, pw, fs, runs, nextId, clock,
                   hist, bp, live, argv, schema, dc, ft, procs>>

(***************************************************************************)
(* Writer harness: write_to_influxdb on any small file.                   *)
(***************************************************************************)
RECURSIVE TextsUpTo(_)
TextsUpTo(n) ==
    IF n = 0 THEN {<<>>}
    ELSE TextsUpTo(n - 1) \cup {Append(t, c) : t \in TextsUpTo(n - 1), c \in Chars}

\* (mutant) one intermediate file for every process
TmpPathOf_shared(pid) == <<"output", "tmp", Pid>>

\* os.path.join(ouput_dir, f"tmp_{os.getpid()}.txt") in the process pid
TmpPathOf(pid) == <<"output", "tmp", pid>>

TmpPath == TmpPathOf(Pid)

InitWriter ==
    /\ entry = "writer"
    /\ pc = "w_open"
    /\ args = NoFrame
    /\ today = 1
    /\ units = <<>>
    /\ pd = NoFrame
    /\ pw = NoFrame
    /\ \E b \in 1..MaxBatch : w = WFrame(TmpPath, b)
    /\ \/ fs = <<>>
       \/ \E t \in TextsUpTo(MaxFileLen) : fs = (TmpPath :> TextFile(t))
    /\ store = <<>>
    /\ runs = {}
    /\ nextId = 1
    /\ clients = 0
    /\ clock = 0
    /\ hist = <<>>
    /\ sleeps = <<>>
    /\ bp = NoFrame
    /\ live = NoFrame
    /\ argv = NoFrame
    /\ schema = init_db_tables({})
    /\ dc = NoFrame
    /\ ft = NoFrame
    /\ procs = NoFrame

NextWriter == w_open \/ w_batch \/ w_final

SpecWriter == InitWriter /\ [][NextWriter]_vars

\* record.split("\n"): the lines of one write call's record
RECURSIVE split_nl(_)
split_nl(t) ==
    IF FirstNL(t) = 0 THEN <<t>>
    ELSE <<SubSeq(t, 1, FirstNL(t) - 1)>> \o split_nl(SubSeq(t, FirstNL(t) + 1, Len(t)))

\* the non-blank lines of a text, in file order, without their newline
NonBlankLines(t) ==
    LET nb == SelectSeq(file_lines(t), LAMBDA l : \E i \in 1..Len(l) : l[i] \notin Whitespace)
    IN  [i \in 1..Len(nb) |->
            IF nb[i][Len(nb[i])] = NL THEN SubSeq(nb[i], 1, Len(nb[i]) - 1) ELSE nb[i]]

\* the lines of the write calls calls[1..n], concatenated in call order
RECURSIVE CallLines(_, _)
CallLines(calls, n) ==
    IF n = 0 THEN <<>> ELSE CallLines(calls, n - 1) \o split_nl(calls[n].record)

\* C5: if the k-th batch write raises, write_to_influxdb propagates the
\* failure to its caller (control is at "raised"), no write call follows the
\* failed one, and the calls made before stay in the store: no step removes
\* or rewrites a write already made.
C5_FailurePropagatesNoRollback ==
    /\ [](\A i \in 1..Len(store) :
            ~store[i].ok => (i = Len(store) /\ pc = "raised"))
    /\ [][Len(store') >= Len(store) /\ SubSeq(store', 1, Len(store)) = store]_vars

\* C5 witness: the second batch write raised after a first one succeeded,
\* while the file still held a non-blank line for a later batch.
C5_Witness ==
    /\ entry = "writer" /\ pc = "raised"
    /\ Len(store) = 2 /\ store[1].ok /\ ~store[2].ok
    /\ \E i \in 1..Len(w.lines) : strip(w.lines[i]) # <<>>

\* C6: when write_to_influxdb returns (no write failed) on a file with n
\* non-blank lines and batch size b >= 1, it has issued exactly ceil(n/b)
\* write calls, each of at most b lines, all but the last of exactly b, and
\* the batches concatenated in call order are the non-blank lines in file
\* order.
C6_BatchesPartitionFile ==
    (entry = "writer" /\ pc = "done") =>
        LET L == NonBlankLines(fs[w.filename].text)
            b == w.batch_size
        IN  /\ Len(store) = (Len(L) + b - 1) \div b
            /\ \A i \in 1..Len(store) :
                 /\ store[i].ok
                 /\ Len(split_nl(store[i].record)) <= b
                 /\ i < Len(store) => Len(split_nl(store[i].record)) = b
            /\ CallLines(store, Len(store)) = L

\* C6 witness: a run of two write calls whose last batch is a partial one.
C6_Witness ==
    /\ entry = "writer" /\ pc = "done"
    /\ Len(store) = 2
    /\ Len(split_nl(store[2].record)) < w.batch_size

(***************************************************************************)
(* process_and_write: influx_writer.py                                     *)
(***************************************************************************)
\* strftime(CONFIG["DATE_FORMAT_FILENAME"]) of a date
DateFmtFile(d) == <<"DATE_FORMAT_FILENAME", d>>

\* what build_points handed back for a record: a text, or a value that is
\* not a str (a list of points), or an exception raised while building
NotStr == <<"list">>
BuildRaises == <<"raise">>
IsText(x) == \A i \in 1..Len(x) : x[i] \in Chars

\* a plausible bug: the file is opened with "w" even when it exists
write_points_to_txt_truncate(files, filename, x) ==
    IF IsText(x)
    THEN [fs |-> (filename :> TextFile(x)) @@ files, raised |-> FALSE]
    ELSE [fs |-> (filename :> TextFile(<<>>)) @@ files, raised |-> TRUE]

\* write_points_to_txt: append to the file when it exists, create it
\* otherwise; f.write of a value that is not a str raises TypeError after
\* the file was opened
write_points_to_txt(files, filename, x) ==
    LET old == IF filename \in DOMAIN files THEN files[filename].text ELSE <<>>
    IN  IF IsText(x)
        THEN [fs |-> (filename :> TextFile(old \o x)) @@ files, raised |-> FALSE]
        ELSE [fs |-> (filename :> TextFile(old)) @@ files, raised |-> TRUE]

\* the keys of a record of the feed: the variables v1 and v2, after
\* Timelogged when the record has one
V1 == <<"v1">>
V2 == <<"v2">>
Timelogged == <<"Timelogged">>
NamesOf(rec) == IF rec.tl = "none" THEN <<V1, V2>> ELSE <<Timelogged, V1, V2>>

\* the filter at the head of the record loop: with a variables_list only
\* its names and Timelogged stay in the record
filter_record(names, variables_list) ==
    IF variables_list = None THEN names
    ELSE SelectSeq(names, LAMBDA k :
             (\E i \in 1..Len(variables_list) : variables_list[i] = k)
             \/ k = Timelogged)

\* the names of each record as the loop hands them to build_points
classified_names(recs, variables_list) ==
    [i \in 1..Len(recs) |-> filter_record(NamesOf(recs[i]), variables_list)]

\* what record["Timelogged"] holds after the try block of the loop: the UTC
\* instant when strptime took the string, the string itself when it did not
UtcInstant == <<"datetime", "utc">>
RawTimelogged == <<"str", "Timelogged">>

\* ts = record.get("Timelogged")
ts_of(rec) ==
    IF rec.tl = "ok" THEN UtcInstant
    ELSE IF rec.tl = "bad" THEN RawTimelogged
    ELSE None

\* the records the loop reached, in order: those before the first
\* exception and the record that met it
RECURSIVE pw_reached(_)
pw_reached(recs) ==
    IF recs = <<>> THEN <<>>
    ELSE <<Head(recs)>>
         \o (IF IsText(Head(recs).out) THEN pw_reached(Tail(recs)) ELSE <<>>)

\* the ts of the records whose build_points result the loop handed to
\* write_points_to_txt, in order: the loop ends with the first exception
RECURSIVE pw_handed(_)
pw_handed(recs) ==
    IF recs = <<>> \/ Head(recs).out = BuildRaises THEN <<>>
    ELSE <<ts_of(Head(recs))>>
         \o (IF IsText(Head(recs).out) THEN pw_handed(Tail(recs)) ELSE <<>>)

\* the record loop of process_and_write: Timelogged is normalised when it
\* parses (dt_utc keeps the last parsed instant), the record's points are
\* built and handed to write_points_to_txt; the first exception ends the loop
RECURSIVE pw_records(_, _, _)
pw_records(files, recs, dt_utc) ==
    IF recs = <<>> THEN [fs |-> files, raised |-> FALSE, dt_utc |-> dt_utc]
    ELSE LET rec == Head(recs)
             dt == IF rec.tl = "ok" THEN "utc" ELSE dt_utc
         IN  IF rec.out = BuildRaises
             THEN [fs |-> files, raised |-> TRUE, dt_utc |-> dt]
             ELSE LET r == write_points_to_txt(files, TmpPath, rec.out)
                  IN  IF r.raised
                      THEN [fs |-> r.fs, raised |-> TRUE, dt_utc |-> dt]
                      ELSE pw_records(r.fs, Tail(recs), dt)

\* write_to_influxdb(write_filename, args, batch_size=5000)
PWBatchSize == 5000

\* the canonical path of the retained points file, and its gzip
FinalPath(mode, date_str_file, range, time_str_file) ==
    IF mode = "daily"
    THEN <<"output", "date", date_str_file, range, "txt">>
    ELSE <<"output", "live", date_str_file, time_str_file, "txt">>

GzPath(p) == Append(p, "gz")

\* gzip of a text file: one member that holds the text, written at the
\* start of a file that was empty ("over" is what the file held when the
\* member was written)
Gzip(f) == [gz |-> TRUE, text |-> f.text, over |-> TextFile(<<>>)]

\* the files without path p
Remove(files, p) == [q \in DOMAIN files \ {p} |-> files[q]]

\* (mutant) the count is the number of records that emitted a line
pw_record_count_lines(cleaned_list) ==
    Len(SelectSeq(cleaned_list, LAMBDA rec : IsText(rec.out) /\ rec.out # <<>>))

\* record_count = len(cleaned_list), taken before the record loop
pw_record_count(cleaned_list) == Len(cleaned_list)

\* the frame of a call process_and_write(cleaned_list, date_str_file,
\* time_str_file, range, mode, args); variables_list has its default, and
\* classified is what the record loop handed to build_points, record by
\* record, up to the end of the loop or its first exception
PWFrame(cleaned_list, date_str_file, time_str_file, range, mode) ==
    [cleaned_list |-> cleaned_list, date_str_file |-> date_str_file,
     time_str_file |-> time_str_file, range |-> range, mode |-> mode,
     record_count |-> pw_record_count(cleaned_list), dt_utc |-> "None",
     built |-> FALSE, store_called |-> FALSE, ret |-> None,
     variables_list |-> None, classified |-> <<>>, handed |-> <<>>]

\* where control goes when process_and_write returns
PWReturnPc ==
    IF entry = "main" THEN "pd_after_pw"
    ELSE IF entry = "live" THEN "live_after_pw"
    ELSE "done"

\* a plausible bug: the store is written whenever db_write is set
pw_writes_store_any(a) == a.db_write

\* the store is written only with db_write and override both set
pw_writes_store(a) == a.db_write /\ a.override

\* record_count, the record loop, then the decision to write to the store
pw_build ==
    /\ pc = "pw_start"
    /\ LET r == pw_records(fs, pw.cleaned_list, "None")
       IN  /\ fs' = r.fs
           /\ IF r.raised
              THEN /\ pw' = [pw EXCEPT !.dt_utc = r.dt_utc,
                                       !.handed = pw_handed(pw.cleaned_list),
                                       !.classified =
                                           classified_names(
                                               pw_reached(pw.cleaned_list),
                                               pw.variables_list)]
                   /\ pc' = PWRaisePc
                   /\ w' = w
              ELSE /\ pw' = [pw EXCEPT !.dt_utc = r.dt_utc, !.built = TRUE,
                                       !.store_called = pw_writes_store(args),
                                       !.handed = pw_handed(pw.cleaned_list),
                                       !.classified =
                                           classified_names(pw.cleaned_list,
                                                            pw.variables_list)]
                   /\ IF pw_writes_store(args)
                      THEN /\ w' = WFrame(TmpPath, PWBatchSize)
                           /\ pc' = "w_open"
                      ELSE /\ w' = w
                           /\ pc' = "pw_retain"
    /\ UNCHANGED <<entry, args, today, units, pd, store, runs, nextId, clients,
                   clock, hist, sleeps, bp, live, argv, schema, dc, ft, procs>>

\* a plausible bug: the temporary file is left behind after a good run
pw_cleanup_forgotten(files) == files

\* if os.path.exists(write_filename): os.remove(write_filename)
remove_if_exists(files, write_filename) ==
    IF write_filename \in DOMAIN files THEN Remove(files, write_filename)
    ELSE files

\* without retain_file the temporary file is removed when it exists
pw_cleanup(files) == remove_if_exists(files, TmpPath)

\* a plausible bug: the uncompressed canonical file is not removed
pw_retain_files_keep_txt(files, final) ==
    (GzPath(final) :> Gzip(files[TmpPath])) @@ (final :> files[TmpPath])
        @@ Remove(files, TmpPath)

\* os.rename(src, dst) of a file that exists: dst is replaced
os_rename(files, src, dst) == (dst :> files[src]) @@ Remove(files, src)

\* gzip.open(path, "wb"): the file is created, or cut to no bytes, at the
\* open
gzip_open(files, path) == (path :> TextFile(<<>>)) @@ files

\* f_out.writelines(f_in) and the end of the with block: the member is
\* written in one piece at the start of the file when f_out is closed, over
\* what the file holds then; the bytes of that content beyond the member's
\* end, if it has any, stay behind the member
gzip_close(files, path, text) ==
    (path :> [Gzip(TextFile(text)) EXCEPT !.over = files[path]]) @@ files

\* the with block of open(final, "rb") and gzip.open(final + ".gz", "wb")
\* in a process that is alone: the gzip file is written anew with the
\* content of the file
gzip_copy(files, final) ==
    gzip_close(gzip_open(files, GzPath(final)), GzPath(final),
               files[final].text)

\* with retain_file: os.rename to the canonical path, gzip beside it,
\* os.remove of the uncompressed file
rename_and_gzip(files, write_filename, final) ==
    Remove(gzip_copy(os_rename(files, write_filename, final), final), final)

\* the retain branch of process_and_write in this process
pw_retain_files(files, final) == rename_and_gzip(files, TmpPath, final)

\* strftime(CONFIG["TIME_FORMAT_FILENAME"]) of an instant
TimeFmtFile(t) == <<"TIME_FORMAT_FILENAME", t>>

\* the tail of process_and_write: retain or clean up, then the return value
\* (in live mode dt_utc.strftime raises when no Timelogged was parsed)
pw_retain ==
    /\ pc = "pw_retain"
    /\ LET final == FinalPath(pw.mode, pw.date_str_file, pw.range, pw.time_str_file)
           rename_fails == args.retain_file /\ TmpPath \notin DOMAIN fs
           strftime_fails == pw.mode = "live" /\ pw.dt_utc = "None"
           points_file_final == IF args.retain_file THEN GzPath(final) ELSE None
           time_str == IF pw.mode = "live" THEN TimeFmtFile(pw.dt_utc) ELSE None
       IN  /\ fs' = IF rename_fails THEN fs
                    ELSE IF args.retain_file THEN pw_retain_files(fs, final)
                    ELSE pw_cleanup(fs)
           /\ IF rename_fails \/ strftime_fails
              THEN /\ pw' = pw
                   /\ pc' = PWRaisePc
              ELSE /\ pw' = [pw EXCEPT !.ret = <<pw.record_count, points_file_final,
                                                time_str>>]
                   /\ pc' = PWReturnPc
    /\ UNCHANGED <<entry, args, today, units, pd, w, store, runs, nextId,
                   clients, clock, hist, sleeps, bp, live, argv, schema, dc, ft,
                   procs>>

(***************************************************************************)
(* process_and_write harness: one call on any small record list.          *)
(***************************************************************************)
\* a record as process_and_write sees it: whether its Timelogged parses
\* ("ok"), is a string strptime refuses ("bad") or is absent ("none"; in
\* both cases dt_utc is left as it was), and what build_points gives for it
Records ==
    [tl : {"ok", "bad", "none"},
     out : {<<>>, <<"a", NL>>, <<"b", NL>>, NotStr, BuildRaises}]

RECURSIVE ListsUpTo(_, _)
ListsUpTo(S, n) ==
    IF n = 0 THEN {<<>>}
    ELSE ListsUpTo(S, n - 1) \cup {Append(l, x) : l \in ListsUpTo(S, n - 1), x \in S}

\* the command-line flags process_and_write reads
Flags(db_write, override, retain_file, log) ==
    [db_write |-> db_write, override |-> override, retain_file |-> retain_file,
     log_run |-> log]

\* the intermediate file as an earlier unit of this process leaves it when
\* its run raised
StaleTmp == TmpPath :> TextFile(<<"b", NL>>)

InitPW ==
    /\ entry = "pw"
    /\ pc = "pw_start"
    /\ \E d \in BOOLEAN, o \in BOOLEAN, r \in BOOLEAN : args = Flags(d, o, r, FALSE)
    /\ today = 1
    /\ units = <<>>
    /\ pd = NoFrame
    /\ \E l \in ListsUpTo(Records, MaxRecs), m \in {"daily", "live"} :
         pw = PWFrame(l, DateFmtFile(1), TimeFmtFile("now_utc"), 1, m)
    /\ w = NoFrame
    /\ fs \in {<<>>, StaleTmp}
    /\ store = <<>>
    /\ runs = {}
    /\ nextId = 1
    /\ clients = 0
    /\ clock = 0
    /\ hist = <<>>
    /\ sleeps = <<>>
    /\ bp = NoFrame
    /\ live = NoFrame
    /\ argv = NoFrame
    /\ schema = init_db_tables({})
    /\ dc = NoFrame
    /\ ft = NoFrame
    /\ procs = NoFrame

\* (a file of the harness never fills a batch of 5000 lines: the batches of
\* the loop are those of the writer harness)
NextPW == pw_build \/ w_open \/ w_final \/ pw_retain

SpecPW == InitPW /\ [][NextPW]_vars

\* the text the run's records contribute to the intermediate file
RECURSIVE RunText(_)
RunText(recs) == IF recs = <<>> THEN <<>> ELSE Head(recs).out \o RunText(Tail(recs))

\* text t ends with text s
EndsWith(t, s) ==
    Len(s) <= Len(t) /\ SubSeq(t, Len(t) - Len(s) + 1, Len(t)) = s

\* C8: with retain-file enabled and a run that returns, the intermediate
\* file and the uncompressed canonical file do not exist, the gzip file at
\* the canonical path (date_<date>_Range<range>.txt.gz in daily mode,
\* live_<date>_<time>.txt.gz in live mode) exists and holds the run's
\* lines, and the returned path is that .gz path.
C8_RetainedAsGzipOnly ==
    (entry = "pw" /\ pc = "done" /\ args.retain_file) =>
        LET txt == IF pw.mode = "daily"
                   THEN <<"output", "date", pw.date_str_file, pw.range, "txt">>
                   ELSE <<"output", "live", pw.date_str_file, pw.time_str_file, "txt">>
            gz == Append(txt, "gz")
        IN  /\ TmpPath \notin DOMAIN fs
            /\ txt \notin DOMAIN fs
            /\ gz \in DOMAIN fs
            /\ fs[gz].gz
            /\ EndsWith(fs[gz].text, RunText(pw.cleaned_list))
            /\ pw.ret[2] = gz

\* C8 witness: a live-mode run with retain-file wrote its lines to the store
\* and returned.
C8_Witness ==
    /\ entry = "pw" /\ pc = "done" /\ args.retain_file
    /\ pw.mode = "live"
    /\ RunText(pw.cleaned_list) # <<>>
    /\ Len(store) = 1

(***************************************************************************)
(* process_datewise: api_client.py                                         *)
(***************************************************************************)
\* a fetched record for which build_points gives a line of text, as it does
\* where it is replaced by a function that returns one (the repository's
\* tests patch it so)
Ra == [tl |-> "ok", out |-> <<"a", NL>>]

\* a fetched record for which build_points gives the list of points of
\* bf2_rename_map: f.write of it raises TypeError
Rl == [tl |-> "ok", out |-> NotStr]

\* what the upstream API gives for one unit: fetch_api_data raises, or the
\* payload does not parse (clean_and_parse_data raises), or it is a list of
\* records
FetchOutcomes ==
    { [kind |-> "fetch_raises", recs |-> <<>>],
      [kind |-> "malformed", recs |-> <<>>],
      [kind |-> "list", recs |-> <<>>],
      [kind |-> "list", recs |-> <<Ra>>],
      [kind |-> "list", recs |-> <<Rl>>] }

\* the unit that gives nothing to do: an empty list at the first request
PlainOutcome == [kind |-> "list", recs |-> <<>>]

\* a fetch of the sweep that was not plain: it took more than one request,
\* or its payload was anything but the empty list
Eventful(e) ==
    e[1] = "fetch" /\ (e[5] > 1 \/ e[4] # "list" \/ e[6] > 0)

EventfulUnits == Cardinality({i \in 1..Len(hist) : Eventful(hist[i])})

MaxEventful == 2     \* sweep: units of a run whose fetch is not plain

\* fetch_api_data, attempt by attempt
MaxRetries == 3      \* fetch harness: the largest max_retries of a call

\* delay=10, the default of the parameter
FetchDelay == 10

\* sleep(delay) between two attempts
RetrySleep(delay) == <<"time.sleep", "delay", delay>>

\* root.text of a response that has one
FeedText(date_str, range_param) == <<"feed", date_str, range_param>>

\* what one attempt meets: a response with text, requests.get or
\* raise_for_status raising, a response that is not XML, or a response
\* whose root has no text (the assert raises AssertionError)
AttemptOutcomes == {"text", "HTTPError", "ParseError", "AssertionError"}

\* the locals of a call fetch_api_data(date_str, range_param, max_retries,
\* delay): requests counts the requests.get calls, outcomes lists what each
\* attempt met
FTFrame(date_str, range_param, max_retries, delay) ==
    [date_str |-> date_str, range_param |-> range_param,
     max_retries |-> max_retries, delay |-> delay, attempt |-> 1,
     requests |-> 0, outcomes |-> <<>>, result |-> <<"running">>]

\* (mutant) a handler that sleeps after every failed attempt
after_failure_always_sleeps(attempt, max_retries) == "sleep"

\* the except clause: sleep(delay) if attempt < max_retries, else raise
after_failure(attempt, max_retries) ==
    IF attempt < max_retries THEN "sleep" ELSE "raise"

\* what an attempt of a call can meet: every outcome in the call on its own;
\* in a sweep a response or a failed request, the first failure of a call
\* only while the run has fewer than MaxEventful units that were not plain
FetchAttemptOutcomes ==
    IF entry = "fetch" THEN AttemptOutcomes
    ELSE IF ft.requests > 0 \/ EventfulUnits < MaxEventful
    THEN {"text", "HTTPError"}
    ELSE {"text"}

\* where control goes when fetch_api_data returns, and when it raises
FTReturnPc == IF entry = "main" THEN "pd_fetch" ELSE "done"
FTRaisePc == IF entry = "main" THEN "pd_fetch" ELSE "raised"

\* one turn of "for attempt in range(1, max_retries + 1)": the request, then
\* the return of the text, or the except clause; a loop that runs out
\* without a return or a raise falls off the end of the function
ft_attempt ==
    /\ pc = "ft_loop"
    /\ ft.attempt <= ft.max_retries
    /\ \E o \in FetchAttemptOutcomes :
         LET met == [ft EXCEPT !.requests = ft.requests + 1,
                               !.outcomes = Append(ft.outcomes, o)]
         IN  IF o = "text"
             THEN /\ ft' = [met EXCEPT !.result =
                              <<"returned", FeedText(ft.date_str, ft.range_param)>>]
                  /\ sleeps' = sleeps
                  /\ pc' = FTReturnPc
             ELSE IF after_failure(ft.attempt, ft.max_retries) = "raise"
             THEN /\ ft' = [met EXCEPT !.result = <<"raised", o>>]
                  /\ sleeps' = sleeps
                  /\ pc' = FTRaisePc
             ELSE /\ sleeps' = Append(sleeps, RetrySleep(ft.delay))
                  /\ IF ft.attempt + 1 <= ft.max_retries
                     THEN /\ ft' = [met EXCEPT !.attempt = ft.attempt + 1]
                          /\ pc' = "ft_loop"
                     ELSE /\ ft' = [met EXCEPT !.attempt = ft.attempt + 1,
                                               !.result = <<"returned", None>>]
                          /\ pc' = FTReturnPc
    /\ UNCHANGED <<entry, args, today, units, pd, pw, w, fs, store, runs,
                   nextId, clients, clock, hist, bp, live, argv, schema, dc,
                   procs>>

\* the payloads a returned fetch of the sweep can carry: any, for a first
\* request while the run has fewer than MaxEventful units that were not
\* plain; the empty list otherwise
PayloadsOf(frame) ==
    IF frame.result[1] = "raised"
    THEN {o \in FetchOutcomes : o.kind = "fetch_raises"}
    ELSE IF frame.requests = 1 /\ EventfulUnits < MaxEventful
    THEN {o \in FetchOutcomes : o.kind # "fetch_raises"}
    ELSE {PlainOutcome}

\* the locals of a call process_datewise(dt, range_param, log_run_to_localdb,
\* args, log_path, variables_list)
PDFrame(u, log_path) ==
    [dt |-> u.dt, range_param |-> u.range_param,
     log_run_to_localdb |-> u.log_run_to_localdb, log_path |-> log_path,
     variables_list |-> u.variables_list,
     num_records |-> 0, success |-> FALSE, points_file_path |-> None]

\* a plausible bug: the exception of fetch_api_data leaves process_datewise
FetchFailPc_propagates == "raised"

\* except Exception: logger.exception("fetch_api_data failed ..."), then
\* the ledger step
FetchFailPc == "pd_log"

\* raw_data = fetch_api_data(dt_str, range_param) has returned or raised;
\* clean_and_parse_data: a list goes to process_and_write, a payload that
\* does not decode is caught by the inner handler
pd_fetch ==
    /\ pc = "pd_fetch"
    /\ \E o \in PayloadsOf(ft) :
         /\ hist' = Append(hist, <<"fetch", pd.dt, pd.range_param, o.kind,
                                   ft.requests, Len(o.recs)>>)
         /\ IF o.kind = "list"
            THEN /\ pw' = [PWFrame(o.recs, DateFmtFile(pd.dt), None,
                                   pd.range_param, "daily")
                             EXCEPT !.variables_list = pd.variables_list]
                 /\ pc' = "pw_start"
            ELSE /\ pw' = pw
                 /\ pc' = IF o.kind = "fetch_raises" THEN FetchFailPc ELSE "pd_log"
    /\ UNCHANGED <<entry, args, today, units, pd, w, fs, store, runs, nextId,
                   clients, clock, sleeps, bp, live, argv, schema, dc, ft,
                   procs>>

\* a plausible bug: the attempted count is lost with the result
pd_result_no_count(frame, ret) ==
    [frame EXCEPT !.points_file_path = ret[2], !.success = TRUE]

\* num_records, points_file_path, _ = process_and_write(...); success = True
pd_result(frame, ret) ==
    [frame EXCEPT !.num_records = ret[1], !.points_file_path = ret[2],
                  !.success = TRUE]

\* process_and_write returned
pd_after_pw ==
    /\ pc = "pd_after_pw"
    /\ pd' = pd_result(pd, pw.ret)
    /\ hist' = Append(hist, <<"pw_returned", pd.dt, pd.range_param, pw.record_count>>)
    /\ pc' = "pd_log"
    /\ UNCHANGED <<entry, args, today, units, pw, w, fs, store, runs, nextId,
                   clients, clock, sleeps, bp, live, argv, schema, dc, ft,
                   procs>>

\* the part of process_and_write that raised
RaiseCause ==
    IF ~pw.built THEN "build"
    ELSE IF pw.store_called /\ w.raised THEN "store"
    ELSE "files"

\* a plausible bug: the handler marks the unit as done
pd_caught_success(frame) == [frame EXCEPT !.success = TRUE]

\* except Exception: logger.exception("process_and_write failed")
pd_caught(frame) == frame

pd_except ==
    /\ pc = "pd_except"
    /\ pd' = pd_caught(pd)
    /\ hist' = Append(hist, <<"pw_raised", pd.dt, pd.range_param,
                              pw.record_count, RaiseCause>>)
    /\ pc' = "pd_log"
    /\ UNCHANGED <<entry, args, today, units, pw, w, fs, store, runs, nextId,
                   clients, clock, sleeps, bp, live, argv, schema, dc, ft,
                   procs>>

\* the log_run call of a unit
PDCall(t) ==
    [ run_time |-> t, date_run |-> DateFmt(pd.dt),
      range_param |-> str(pd.range_param), mode |-> args.mode,
      parameters |-> args, process_id |-> Pid, success |-> pd.success,
      num_records |-> pd.num_records, log_path |-> pd.log_path,
      points_file_path |-> pd.points_file_path ]

\* if log_run_to_localdb: log_run(...); then process_datewise returns
pd_log ==
    /\ pc = "pd_log"
    /\ IF pd.log_run_to_localdb
       THEN /\ runs' = log_run(runs, nextId, PDCall(clock + 1))
            /\ nextId' = log_run_nextId(runs, nextId, PDCall(clock + 1))
            /\ clock' = clock + 1
            /\ hist' = hist \o << <<"log_run", PDCall(clock + 1)>>,
                                  <<"return", pd.dt, pd.range_param>> >>
       ELSE /\ UNCHANGED <<runs, nextId, clock>>
            /\ hist' = Append(hist, <<"return", pd.dt, pd.range_param>>)
    /\ pc' = "main_loop"
    /\ UNCHANGED <<entry, args, today, units, pd, pw, w, fs, store, clients,
                   sleeps, bp, live, argv, schema, dc, ft, procs>>

(***************************************************************************)
(* main: the daily and range modes                                         *)
(***************************************************************************)
\* an absent --date, --startdate or --enddate
NoDate == None

\* a date of the command line is a text: the day it names, spelled with the
\* month and the day padded to two digits ("01-02-2025") or not ("1-2-2025")
Padded == "mm-dd-yyyy"
Unpadded == "m-d-yyyy"
DateTexts(spellings) == {<<sp, d>> : sp \in spellings, d \in Days}

\* datetime.datetime.strptime(text, "%m-%d-%Y") reads both spellings
strptime(text) == text[2]

\* strftime("%m-%d-%Y") pads
strftime(d) == <<Padded, d>>

\* a plausible bug: the end date is left out of the sweep
dates_list_exclusive(start_date, end_date) ==
    [i \in 1..(end_date - start_date) |-> start_date + (i - 1)]

\* [start_date + timedelta(days=i) for i in range((end - start).days + 1)]
dates_list(start_date, end_date) ==
    [i \in 1..(end_date - start_date + 1) |-> start_date + (i - 1)]

\* the units of "for dt in dates: for i in range(1, 3)", each with the
\* log_run_to_localdb and the variables_list it is called with
RECURSIVE UnitsOf(_, _, _)
UnitsOf(dates, log, variables_list) ==
    IF dates = <<>> THEN <<>>
    ELSE << [dt |-> Head(dates), range_param |-> 1, log_run_to_localdb |-> log,
             variables_list |-> variables_list],
            [dt |-> Head(dates), range_param |-> 2, log_run_to_localdb |-> log,
             variables_list |-> variables_list] >>
         \o UnitsOf(Tail(dates), log, variables_list)

\* the variable file of the command lines that name one: its lines, as the
\* iteration over the open file gives them
VarFile == <<"variables.txt">>
VarFileLines == << <<" ", "v1", NL>>, <<NL>> >>

\* [line.strip() for line in vf if line.strip()]
read_variable_file(lines) ==
    LET kept == SelectSeq(lines, LAMBDA line : strip(line) # <<>>)
    IN  [i \in 1..Len(kept) |-> strip(kept[i])]

\* the range branch: variables_list is None unless --variable-file is given
range_variables_list(a) ==
    IF a.variable_file # None THEN read_variable_file(VarFileLines) ELSE None

\* (mutant) the daily branch defaults to the current date
default_date_today(now) == now

\* the daily branch without --date: (now_utc - timedelta(days=1))
default_date(now) == now - 1

\* (mutant) a sweep without the test of its two dates
start_after_end_unchecked(start_date, end_date) == FALSE

\* if start_date > end_date: logger.error(...); sys.exit(1)
start_after_end(start_date, end_date) == start_date > end_date

\* args.startdate == args.enddate, a comparison of the two texts, turns the
\* command line into one with a single date
SameDayRewrite(a) ==
    IF a.startdate # NoDate /\ a.enddate # NoDate /\ a.startdate = a.enddate
    THEN [a EXCEPT !.date = a.startdate, !.startdate = NoDate, !.enddate = NoDate]
    ELSE a

\* a plausible bug: today's date is logged in daily mode too
daily_log_flag_always(a, dt, now) == a.log_run

\* daily mode: log_run_to_localdb is switched off for today's date
daily_log_flag(a, dt, now) == a.log_run /\ dt # now

\* the branch of main the command line selects
main_dispatch ==
    /\ pc = "main"
    /\ LET a == SameDayRewrite(args)
       IN  IF a.startdate # NoDate /\ a.enddate # NoDate
           THEN /\ args' = a
                /\ IF start_after_end(strptime(a.startdate), strptime(a.enddate))
                   THEN /\ pc' = "exit1"
                        /\ units' = <<>>
                   ELSE /\ pc' = "main_loop"
                        /\ units' = UnitsOf(dates_list(strptime(a.startdate),
                                                       strptime(a.enddate)),
                                            a.log_run, range_variables_list(a))
           ELSE IF a.mode = "daily"
           THEN LET date == IF a.date = NoDate
                            THEN strftime(default_date(today)) ELSE a.date
                    dt == strptime(date)
                IN  /\ args' = [a EXCEPT !.date = date]
                    /\ pc' = "main_loop"
                    /\ units' = UnitsOf(<<dt>>, daily_log_flag(a, dt, today),
                                        None)
           ELSE /\ args' = a
                /\ pc' = "done"
                /\ units' = <<>>
    /\ UNCHANGED <<entry, today, pd, pw, w, fs, store, runs, nextId, clients,
                   clock, hist, sleeps, bp, live, argv, schema, dc, ft, procs>>

\* the next unit: setup_run_logging_yaml when --log-run, then
\* process_datewise; the process ends after the last unit
main_loop ==
    /\ pc = "main_loop"
    /\ IF units = <<>>
       THEN /\ pc' = "done"
            /\ UNCHANGED <<units, pd, hist, ft>>
       ELSE LET u == Head(units)
                log_path == IF args.log_run
                            THEN LogPath(args.mode, DateFmtFile(u.dt), str(u.range_param))
                            ELSE None
            IN  /\ pd' = PDFrame(u, log_path)
                /\ units' = Tail(units)
                /\ hist' = Append(hist, <<"call", u.dt, u.range_param,
                                          u.log_run_to_localdb>>)
                /\ ft' = FTFrame(DateFmt(u.dt), u.range_param, 3, FetchDelay)
                /\ pc' = "ft_loop"
    /\ UNCHANGED <<entry, args, today, pw, w, fs, store, runs, nextId, clients,
                   clock, sleeps, bp, live, argv, schema, dc, procs>>

\* the command lines of the daily and range modes; --date is left out when
\* both --startdate and --enddate are given (main never reads it then), and
\* --variable-file comes with both of them, in runs that only build the
\* points (its use: a selective backfill of a date range).  The spelling of
\* a date matters to main where it compares the two texts: the start date
\* comes unpadded where that comparison is of the same day.  A sweep over
\* several days is asked for in range mode (the mode only names the run in
\* the ledger and in the log path)
CommandLines ==
    { a \in [mode : {"daily", "range"},
             date : {NoDate} \cup DateTexts({Padded}),
             startdate : {NoDate} \cup DateTexts({Padded, Unpadded}),
             enddate : {NoDate} \cup DateTexts({Padded}),
             db_write : BOOLEAN, override : BOOLEAN, retain_file : BOOLEAN,
             log_run : BOOLEAN, variable_file : {None, VarFile}] :
        /\ (a.startdate # NoDate /\ a.enddate # NoDate) => a.date = NoDate
        /\ (a.startdate # NoDate /\ a.startdate[1] = Unpadded) =>
              a.enddate # NoDate /\ strptime(a.startdate) = strptime(a.enddate)
        /\ (a.mode = "daily" /\ a.startdate # NoDate /\ a.enddate # NoDate) =>
              strptime(a.startdate) >= strptime(a.enddate)
        /\ a.variable_file # None =>
              /\ a.startdate # NoDate /\ a.enddate # NoDate
              /\ ~a.db_write /\ ~a.override /\ ~a.retain_file /\ ~a.log_run }

Init ==
    /\ entry = "main"
    /\ pc = "main"
    /\ args \in CommandLines
    /\ today = MaxDay
    /\ units = <<>>
    /\ pd = NoFrame
    /\ pw = NoFrame
    /\ w = NoFrame
    /\ fs = <<>>
    /\ store = <<>>
    /\ runs = init_db({})
    /\ nextId = 1
    /\ clients = 0
    /\ clock = 0
    /\ hist = <<>>
    /\ sleeps = <<>>
    /\ bp = NoFrame
    /\ live = NoFrame
    /\ argv = args
    /\ schema = init_db_tables({})
    /\ dc = NoFrame
    /\ ft = NoFrame
    /\ procs = NoFrame

Next ==
    \/ main_dispatch
    \/ main_loop
    \/ ft_attempt
    \/ pd_fetch
    \/ pw_build
    \/ w_open
    \/ w_final
    \/ pw_retain
    \/ pd_after_pw
    \/ pd_except
    \/ pd_log

Spec == Init /\ [][Next]_vars

(***************************************************************************)
(* The sweep's history: which unit an event belongs to.                    *)
(***************************************************************************)
Hist == 1..Len(hist)

\* the date and range of an event, as the ledger formats them
EvDate(e) == IF e[1] = "log_run" THEN e[2].date_run ELSE DateFmt(e[2])
EvRange(e) == IF e[1] = "log_run" THEN e[2].range_param ELSE str(e[3])

\* the positions of the tag-events of unit (d, r)
At(tag, d, r) ==
    {i \in Hist : /\ hist[i][1] = tag
                  /\ EvDate(hist[i]) = DateFmt(d)
                  /\ EvRange(hist[i]) = str(r)}

\* process_datewise has returned for unit (d, r)
Returned(d, r) == At("return", d, r) # {}

\* the dates the command line asks for, once main has read it
SweepDates ==
    IF args.startdate # NoDate /\ args.enddate # NoDate
    THEN {d \in Days : strptime(args.startdate) <= d /\ d <= strptime(args.enddate)}
    ELSE IF args.mode = "daily" /\ args.date # NoDate THEN {strptime(args.date)}
    ELSE {}

\* the process_datewise calls made so far, in order
Calls == SelectSeq(hist, LAMBDA e : e[1] = "call")

\* the event at position i is a ledger call of the unit of event j
LoggedAt(i, j) ==
    /\ i <= Len(hist)
    /\ hist[i][1] = "log_run"
    /\ EvDate(hist[i]) = EvDate(hist[j]) /\ EvRange(hist[i]) = EvRange(hist[j])

\* the event at position i is the return of the unit of event j
ReturnedAt(i, j) ==
    /\ i <= Len(hist)
    /\ hist[i][1] = "return"
    /\ hist[i][2] = hist[j][2] /\ hist[i][3] = hist[j][3]

\* C2: in a daily/range sweep a raising fetch never ends the process:
\* process_datewise returns right after it (the ledger call at most in
\* between), at the end of the sweep every unit of the command line was
\* fetched and returned, and a unit whose own fetch, decode and
\* process_and_write went through either is logged with success = True and
\* has a ledger row with success = 1, or is not logged at all (--log-run is
\* off, or the date is today's), whatever happened to the other units.
C2_FetchFailureIsolated ==
    entry = "main" =>
        /\ pc # "raised"
        /\ \A i \in Hist :
             /\ (hist[i][1] = "fetch" /\ hist[i][4] = "fetch_raises") =>
                  \/ i = Len(hist) /\ pc = "pd_log"
                  \/ ReturnedAt(i + 1, i)
                  \/ LoggedAt(i + 1, i) /\ ReturnedAt(i + 2, i)
             /\ hist[i][1] = "pw_returned" =>
                  \/ i = Len(hist) /\ pc = "pd_log"
                  \/ /\ ReturnedAt(i + 1, i)
                     /\ ~(args.log_run /\ hist[i][2] # today)
                  \/ /\ LoggedAt(i + 1, i) /\ ReturnedAt(i + 2, i)
                     /\ hist[i + 1][2].success
                     /\ \E row \in runs : /\ row.date_run = DateFmt(hist[i][2])
                                          /\ row.range = str(hist[i][3])
                                          /\ row.mode = args.mode
                                          /\ row.success = 1
        /\ pc = "done" =>
             \A d \in SweepDates, r \in Ranges :
                 At("fetch", d, r) # {} /\ Returned(d, r)

\* C2 witness: a finished sweep in which the fetch of one unit raised (the
\* unit is logged as failed) and a later unit is logged as a success.
C2_Witness ==
    /\ entry = "main" /\ pc = "done"
    /\ \E i \in Hist, j \in Hist, k \in Hist :
         /\ i < j /\ j < k
         /\ hist[i][1] = "fetch" /\ hist[i][4] = "fetch_raises"
         /\ hist[j][1] = "log_run" /\ ~hist[j][2].success
         /\ EvDate(hist[j]) = EvDate(hist[i]) /\ EvRange(hist[j]) = EvRange(hist[i])
         /\ hist[k][1] = "log_run" /\ hist[k][2].success
         /\ hist[k][2].num_records = 1

\* C3 (as claimed): a unit called with ledger logging makes exactly one
\* log_run call, after its fetch and its process_and_write have ended, with
\* success = True exactly when the fetch gave a list (fetch and decode went
\* through) and neither the point building nor the store write raised; a
\* raising fetch gives success = False and no process_and_write at all.
C3_OneLedgerCallPerUnit ==
    entry = "main" =>
        \A d \in Days, r \in Ranges :
            \A c \in At("call", d, r) :
                (hist[c][4] /\ Returned(d, r)) =>
                    LET L == At("log_run", d, r)
                        work == At("fetch", d, r) \cup At("pw_returned", d, r)
                                    \cup At("pw_raised", d, r)
                        completed ==
                            /\ \E i \in At("fetch", d, r) : hist[i][4] = "list"
                            /\ \A i \in At("pw_raised", d, r) :
                                   hist[i][5] \notin {"build", "store"}
                    IN  /\ Cardinality(L) = 1
                        /\ \A l \in L :
                             /\ \A i \in work : i < l
                             /\ hist[l][2].success <=> completed
                        /\ (\E i \in At("fetch", d, r) : hist[i][4] = "fetch_raises") =>
                             /\ \A l \in L : ~hist[l][2].success
                             /\ At("pw_returned", d, r) = {}
                             /\ At("pw_raised", d, r) = {}

\* C4 (as claimed): in a run that writes to the store (db-write and
\* override set), when the write of a unit's records fails after records
\* were processed (the store write raises, or the write of the built
\* points to the intermediate file on the way to it), the unit's ledger
\* call carries success = False and num_records = the number of records of
\* the unit.
C4_FailedWriteKeepsAttemptedCount ==
    entry = "main" =>
        \A d \in Days, r \in Ranges :
            \A i \in At("pw_raised", d, r) :
                (/\ hist[i][5] \in {"build", "store"}
                 /\ hist[i][4] > 0
                 /\ args.db_write /\ args.override) =>
                    \A l \in At("log_run", d, r) :
                        /\ ~hist[l][2].success
                        /\ hist[l][2].num_records = hist[i][4]

\* C7 (as claimed): with retain-file disabled the intermediate file
\* output/tmp_<pid>.txt no longer exists once process_and_write has ended,
\* whether it returned or raised (in its record loop, where the built
\* points are written to the file, or in its store write).
C7_TmpRemovedAtRunEnd ==
    (/\ entry \in {"pw", "main"}
     /\ ~args.retain_file
     /\ pc = PWReturnPc \/ pc = PWRaisePc)
        => TmpPath \notin DOMAIN fs

\* C9 (as claimed): a unit of today's date is fetched like any other, but no
\* log_run call is made for it and the ledger holds no row of today's date,
\* in daily and in range mode alike.
C9_TodayNeverLogged ==
    entry = "main" =>
        /\ \A r \in Ranges : Returned(today, r) => At("fetch", today, r) # {}
        /\ \A r \in Ranges : At("log_run", today, r) = {}
        /\ \A row \in runs : row.date_run # DateFmt(today)

\* C10: in a range sweep with start < end the k-th call of process_datewise
\* is for date start + (k-1) div 2 and range 1 + (k-1) mod 2, there are
\* 2 * (end - start + 1) calls when the sweep has ended, and the units do not
\* overlap: a call comes first or right after the previous unit's return,
\* and every other event (fetch, process_and_write, log_run, return) belongs
\* to the unit of the event before it, which has not returned yet.
C10_RangeSweepOrder ==
    (/\ entry = "main"
     /\ args.startdate # NoDate /\ args.enddate # NoDate
     /\ strptime(args.startdate) < strptime(args.enddate)) =>
        LET n == 2 * (strptime(args.enddate) - strptime(args.startdate) + 1)
        IN  /\ Len(Calls) <= n
            /\ \A k \in 1..Len(Calls) :
                 /\ Calls[k][2] = strptime(args.startdate) + ((k - 1) \div 2)
                 /\ Calls[k][3] = ((k - 1) % 2) + 1
            /\ pc = "done" => Len(Calls) = n /\ hist[Len(hist)][1] = "return"
            /\ \A i \in Hist :
                 IF hist[i][1] = "call"
                 THEN i = 1 \/ hist[i - 1][1] = "return"
                 ELSE /\ i > 1
                      /\ hist[i - 1][1] # "return"
                      /\ EvDate(hist[i]) = EvDate(hist[i - 1])
                      /\ EvRange(hist[i]) = EvRange(hist[i - 1])

\* C10 witness: a finished sweep over two dates, four units, with ledger
\* calls.
C10_Witness ==
    /\ entry = "main" /\ pc = "done"
    /\ args.startdate # NoDate /\ args.enddate # NoDate
    /\ strptime(args.startdate) < strptime(args.enddate)
    /\ Len(Calls) = 2 * (strptime(args.enddate) - strptime(args.startdate) + 1)
    /\ \E i \in Hist : hist[i][1] = "log_run"

(***************************************************************************)
(* main: the live mode (one iteration per process)                         *)
(***************************************************************************)
MaxWait == 2         \* live harness: the cadence in seconds is 1..MaxWait
MaxElapsed == 2      \* live harness: et - st in seconds is 0..MaxElapsed

\* the default db_path of init_db and log_run
DbPath == <<"db", "run_metadata.db">>

\* CONFIG without a WAIT key
NoWait == 0

(***************************************************************************)
(* Decoding: data_cleaner.py.  A payload is a sequence of tokens: pieces   *)
(* of script markup, a blank, and whole Python literals.                   *)
(***************************************************************************)
ScriptOpen == "<script>"
ScriptClose == "</script>"
ScrHalf == "<scr"
IptHalf == "ipt>"
Blank == " "
Junk == "x"

\* whole literals: a list of string-keyed mappings, a single mapping, a
\* string, a number, a list of numbers
ListLit == "[{'a': '1'}]"
DictLit == "{'a': '1'}"
StrLit == "'abc'"
StrBody == "abc"
NumLit == "5"
NumListLit == "[1, 2]"
Literals == {ListLit, DictLit, StrLit, NumLit, NumListLit}

\* type(ast.literal_eval(l)) of a whole literal
ShapeOf(l) ==
    IF l = ListLit THEN "list of dict"
    ELSE IF l = DictLit THEN "dict"
    ELSE IF l = StrLit THEN "str"
    ELSE IF l = NumLit THEN "int"
    ELSE "list of int"

\* the text of a token sequence: "<scr" followed by "ipt>" reads "<script>"
RECURSIVE Canon(_)
Canon(t) ==
    IF Len(t) < 2 THEN t
    ELSE IF t[1] = ScrHalf /\ t[2] = IptHalf
    THEN <<ScriptOpen>> \o Canon(SubSeq(t, 3, Len(t)))
    ELSE <<t[1]>> \o Canon(Tail(t))

\* the first position from i on where t has token tok, 0 when there is none
FirstFrom(t, tok, i) ==
    IF \E j \in i..Len(t) : t[j] = tok
    THEN CHOOSE j \in i..Len(t) :
             t[j] = tok /\ \A k \in i..(j - 1) : t[k] # tok
    ELSE 0

\* re.sub(r"<script.*?</script>", "", raw_data, flags=re.DOTALL): one pass
\* from the left, each match running from an opening tag to the first
\* closing tag after it
RECURSIVE re_sub(_)
re_sub(t) ==
    LET i == FirstFrom(t, ScriptOpen, 1)
        j == IF i = 0 THEN 0 ELSE FirstFrom(t, ScriptClose, i + 1)
    IN  IF j = 0 THEN t
        ELSE SubSeq(t, 1, i - 1) \o re_sub(SubSeq(t, j + 1, Len(t)))

\* n copies of the characters s one after the other
RECURSIVE Repeated(_, _)
Repeated(s, n) == IF n = 0 THEN "" ELSE s \o Repeated(s, n - 1)

\* ast.literal_eval of a text, for the texts the token sequences spell: a
\* whole literal alone is its value; string literals side by side, with or
\* without blanks between them, are one string of all their characters;
\* numerals side by side without a blank are one number; every other text
\* (markup, junk, any other run of literals, the empty text) raises.  The
\* blanks at the two ends do not count: literal_eval takes the ones in
\* front off, the parser passes over the ones at the end
literal_eval(t) ==
    LET u == rstrip(lstrip(t, {Blank}), {Blank})
        strs == {i \in 1..Len(u) : u[i] = StrLit}
    IN  IF Len(u) = 1 /\ u[1] \in Literals
        THEN [raised |-> FALSE, shape |-> ShapeOf(u[1]), value |-> u[1]]
        ELSE IF u # <<>> /\ \A i \in 1..Len(u) : u[i] \in {StrLit, Blank}
        THEN [raised |-> FALSE, shape |-> "str",
              value |-> "'" \o Repeated(StrBody, Cardinality(strs)) \o "'"]
        ELSE IF u # <<>> /\ \A i \in 1..Len(u) : u[i] = NumLit
        THEN [raised |-> FALSE, shape |-> "int",
              value |-> Repeated(NumLit, Len(u))]
        ELSE [raised |-> TRUE, shape |-> "none", value |-> Junk]

\* clean_and_parse_data: re.sub raises TypeError on a payload that is not a
\* text (None); otherwise the spans are removed, the text is stripped and
\* evaluated; a failed evaluation is raised again as Exception, and
\* len(records) raises TypeError on a number
clean_and_parse_data(raw_data) ==
    IF raw_data = None
    THEN [raised |-> TRUE, exc |-> "TypeError", shape |-> "none",
          value |-> Junk]
    ELSE
    LET cleaned == strip(Canon(re_sub(Canon(raw_data))))
        records == literal_eval(cleaned)
    IN  IF records.raised
        THEN [raised |-> TRUE, exc |-> "Exception", shape |-> "none",
              value |-> Junk]
        ELSE IF records.shape = "int"
        THEN [raised |-> TRUE, exc |-> "TypeError", shape |-> "none",
              value |-> Junk]
        ELSE [raised |-> FALSE, exc |-> "none", shape |-> records.shape,
              value |-> records.value]

\* the int 0 that clean_data returns
Zero == "0"

\* (mutant) a handler that catches the decoder's own Exception only
clean_data_narrow_except(raw_data) ==
    LET r == clean_and_parse_data(raw_data)
    IN  IF r.raised
        THEN [raised |-> r.exc = "TypeError", exc |-> r.exc, shape |-> "int",
              value |-> Zero]
        ELSE r

\* clean_data: what clean_and_parse_data returns, or the int 0 when it
\* raised (except Exception catches the TypeError of len too)
clean_data(raw_data) ==
    LET r == clean_and_parse_data(raw_data)
    IN  IF r.raised
        THEN [raised |-> FALSE, exc |-> "none", shape |-> "int", value |-> Zero]
        ELSE r

\* what fetch_api_data_live gives: it raises after its last attempt, or it
\* returns root.text, the text of the response or None when the root
\* element has no text; recs are the records the list literal of the text
\* holds
LiveRaw ==
    { [kind |-> "fetch_raises", payload |-> <<>>, recs |-> <<>>],
      [kind |-> "None", payload |-> None, recs |-> <<>>],
      [kind |-> "malformed", payload |-> <<Junk>>, recs |-> <<>>],
      [kind |-> "list", payload |-> <<ListLit>>, recs |-> <<>>],
      [kind |-> "list", payload |-> <<ListLit>>, recs |-> <<Ra>>],
      [kind |-> "list", payload |-> <<ListLit>>, recs |-> <<Ra, Ra>>],
      [kind |-> "list", payload |-> <<ListLit>>, recs |-> <<Rl>>],
      [kind |-> "list", payload |-> <<ListLit>>,
       recs |-> <<[tl |-> "none", out |-> <<"b", NL>>]>>] }

\* str(args.range or 1)
range_or_1(r) == IF r = None THEN str(1) ELSE r

\* wait_s = float(CONFIG.get("WAIT", args.delay))
wait_s(config_wait, a) == IF config_wait = NoWait THEN a.delay ELSE config_wait

\* the locals of the live branch of main
LiveFrame(a, now, config_wait) ==
    [date_str_file |-> DateFmtFile(now), time_str_file |-> TimeFmtFile("now_utc"),
     log_path |-> IF a.log_run
                  THEN LogPath(a.mode, DateFmtFile(now), TimeFmtFile("now_utc"))
                  ELSE None,
     config_wait |-> config_wait,
     raw |-> [kind |-> "none", payload |-> <<>>, recs |-> <<>>],
     cleaned |-> FALSE,
     returned |-> FALSE, num_records |-> 0, points_file_path |-> None,
     elapsed_s |-> 0, logged |-> "no", remaining_s |-> 0, warned |-> FALSE]

\* a plausible bug: the failed fetch is logged and the iteration goes on
LiveFetchFailPc_goes_on == "live_clean"

\* except Exception: logger.exception(...); sys.exit(1)
LiveFetchFailPc == "exit1"

\* delay=5, the default of fetch_api_data_live
LiveFetchDelay == 5

\* what one attempt of fetch_api_data_live meets: a response whose root
\* element has a text, a response whose root element has none, or an
\* exception of requests.get, raise_for_status or the XML parser
LiveAttemptOutcomes == {"text", "no text", "HTTPError"}

\* raw = fetch_api_data_live(): one turn of its "for attempt in range(1,
\* max_retries + 1)"; root.text is returned, or the except clause sleeps
\* delay before the next attempt and raises after the last. The call is in
\* a try with logger.debug(..., len(raw)): the exception of the fetch and the
\* TypeError of len(None) both end in "except Exception: sys.exit(1)"
live_fetch ==
    /\ pc = "live_fetch"
    /\ ft.attempt <= ft.max_retries
    /\ \E o \in LiveAttemptOutcomes :
         LET met == [ft EXCEPT !.requests = ft.requests + 1,
                               !.outcomes = Append(ft.outcomes, o)]
         IN  IF o = "text"
             THEN /\ \E raw \in {r \in LiveRaw :
                                  r.kind \notin {"fetch_raises", "None"}} :
                       live' = [live EXCEPT !.raw = raw]
                  /\ ft' = [met EXCEPT !.result = <<"returned", "raw">>]
                  /\ sleeps' = sleeps
                  /\ pc' = "live_clean"
             ELSE IF o = "no text"
             THEN /\ \E raw \in {r \in LiveRaw : r.kind = "None"} :
                       live' = [live EXCEPT !.raw = raw]
                  /\ ft' = [met EXCEPT !.result = <<"returned", None>>]
                  /\ sleeps' = sleeps
                  /\ pc' = LiveFetchFailPc
             ELSE IF after_failure(ft.attempt, ft.max_retries) = "raise"
             THEN /\ \E raw \in {r \in LiveRaw : r.kind = "fetch_raises"} :
                       live' = [live EXCEPT !.raw = raw]
                  /\ ft' = [met EXCEPT !.result = <<"raised", o>>]
                  /\ sleeps' = sleeps
                  /\ pc' = LiveFetchFailPc
             ELSE /\ live' = live
                  /\ ft' = [met EXCEPT !.attempt = ft.attempt + 1]
                  /\ sleeps' = Append(sleeps, RetrySleep(ft.delay))
                  /\ pc' = "live_fetch"
    /\ UNCHANGED <<entry, args, today, units, pd, pw, w, fs, store, runs,
                   nextId, clients, clock, hist, bp, argv, schema, dc, procs>>

\* cleaned_list = clean_data(raw, ...), then the call of process_and_write,
\* whose len(cleaned_list) raises TypeError on the int 0
live_clean ==
    /\ pc = "live_clean"
    /\ live' = [live EXCEPT !.cleaned = TRUE]
    /\ LET cleaned_list == clean_data(live.raw.payload)
       IN  IF cleaned_list.shape # "list of dict"
           THEN /\ pw' = pw
                /\ pc' = "raised"
           ELSE /\ pw' = PWFrame(live.raw.recs, live.date_str_file,
                                 live.time_str_file, 1, "live")
                /\ pc' = "pw_start"
    /\ UNCHANGED <<entry, args, today, units, pd, w, fs, store, runs, nextId,
                   clients, clock, hist, sleeps, bp, argv, schema, dc, ft,
                   procs>>

\* num_records, points_file_path, time_str_file = process_and_write(...);
\* et = datetime.datetime.now()
live_after_pw ==
    /\ pc = "live_after_pw"
    /\ \E elapsed \in 0..MaxElapsed :
         live' = [live EXCEPT !.returned = TRUE, !.num_records = pw.ret[1],
                              !.points_file_path = pw.ret[2],
                              !.time_str_file = pw.ret[3],
                              !.elapsed_s = elapsed]
    /\ pc' = IF args.log_run THEN "live_log" ELSE "live_cadence"
    /\ UNCHANGED <<entry, args, today, units, pd, pw, w, fs, store, runs,
                   nextId, clients, clock, hist, sleeps, bp, argv, schema, dc,
                   ft, procs>>

\* the parameters of run_tracker.log_run, in the order of its signature
log_run_params ==
    <<"run_time", "date_run", "range_param", "mode", "parameters", "process_id",
      "success", "num_records", "log_path", "points_file_path", "db_path">>

\* the positional arguments of the log_run call of the live branch
LiveCallArgs(t) ==
    <<t, live.date_str_file, live.time_str_file, range_or_1(args.range),
      args.mode, args, Pid, TRUE, live.num_records, live.log_path,
      live.points_file_path>>

\* Python binds positional arguments to the parameters from the left
Bind(params, values) ==
    [i \in 1..Len(values) |-> <<params[i], values[i]>>]

\* the value a call binds to a parameter (db_path has a default)
Bound(call, name) ==
    IF \E i \in DOMAIN call : call[i][1] = name
    THEN call[CHOOSE i \in DOMAIN call : call[i][1] = name][2]
    ELSE DbPath

\* a log_run call as the ledger sees it
CallRecord(call) ==
    [ run_time |-> Bound(call, "run_time"), date_run |-> Bound(call, "date_run"),
      range_param |-> Bound(call, "range_param"), mode |-> Bound(call, "mode"),
      parameters |-> Bound(call, "parameters"),
      process_id |-> Bound(call, "process_id"),
      success |-> Bound(call, "success"),
      num_records |-> Bound(call, "num_records"),
      log_path |-> Bound(call, "log_path"),
      points_file_path |-> Bound(call, "points_file_path") ]

\* if args.log_run: log_run(run_time, date_str_file, time_str_file, ...).
\* The eleven positional arguments reach db_path: os.path.abspath(None)
\* raises TypeError, and a gzip file is not a database for sqlite3; the
\* ledger at the default path is written only by a call that binds no
\* db_path
live_log ==
    /\ pc = "live_log"
    /\ LET call == Bind(log_run_params, LiveCallArgs(clock + 1))
       IN  IF Bound(call, "db_path") = DbPath
           THEN /\ runs' = log_run(runs, nextId, CallRecord(call))
                /\ nextId' = log_run_nextId(runs, nextId, CallRecord(call))
                /\ live' = [live EXCEPT !.logged = "yes"]
                /\ pc' = "live_cadence"
           ELSE /\ UNCHANGED <<runs, nextId>>
                /\ live' = [live EXCEPT !.logged = "raised"]
                /\ pc' = "raised"
    /\ clock' = clock + 1
    /\ UNCHANGED <<entry, args, today, units, pd, pw, w, fs, store, clients,
                   hist, sleeps, bp, argv, schema, dc, ft, procs>>

\* time.sleep(remaining_s)
CadenceSleep(remaining_s) == <<"time.sleep", "remaining_s", remaining_s>>

\* remaining_s = wait_s - elapsed_s: time.sleep(remaining_s) when it is
\* positive, a warning otherwise; the process ends
live_cadence ==
    /\ pc = "live_cadence"
    /\ LET remaining_s == wait_s(live.config_wait, args) - live.elapsed_s
       IN  /\ live' = [live EXCEPT !.remaining_s = remaining_s,
                                   !.warned = ~(remaining_s > 0)]
           /\ sleeps' = IF remaining_s > 0
                        THEN Append(sleeps, CadenceSleep(remaining_s))
                        ELSE sleeps
    /\ pc' = "done"
    /\ UNCHANGED <<entry, args, today, units, pd, pw, w, fs, store, runs,
                   nextId, clients, clock, hist, bp, argv, schema, dc, ft,
                   procs>>

\* the command lines of the live mode
LiveCommandLines ==
    [mode : {"live"}, range : {None, str(2)}, delay : 1..MaxWait,
     db_write : BOOLEAN, override : BOOLEAN, retain_file : BOOLEAN,
     log_run : BOOLEAN]

\* main up to the live branch: init_db(), now_utc, the file-name strings
\* and, with --log-run, setup_run_logging_yaml
InitLive ==
    /\ entry = "live"
    /\ pc = "live_fetch"
    /\ args \in LiveCommandLines
    /\ today = 1
    /\ units = <<>>
    /\ pd = NoFrame
    /\ pw = NoFrame
    /\ w = NoFrame
    /\ fs = <<>>
    /\ store = <<>>
    /\ runs = init_db({})
    /\ nextId = 1
    /\ clients = 0
    /\ clock = 0
    /\ hist = <<>>
    /\ sleeps = <<>>
    /\ bp = NoFrame
    /\ \E c \in {NoWait} \cup (1..MaxWait) : live = LiveFrame(args, today, c)
    /\ argv = args
    /\ schema = init_db_tables({})
    /\ dc = NoFrame
    /\ ft = FTFrame(None, None, 3, LiveFetchDelay)
    /\ procs = NoFrame

NextLive ==
    \/ live_fetch
    \/ live_clean
    \/ pw_build
    \/ w_open
    \/ w_final
    \/ pw_retain
    \/ live_after_pw
    \/ live_log
    \/ live_cadence

SpecLive == InitLive /\ [][NextLive]_vars

(***************************************************************************)
(* Live mode: the claims.                                                  *)
(***************************************************************************)
\* the live iteration is past its ledger step
PastLedgerStep == pc \in {"live_cadence", "done", "raised"}

\* the feed did its part of a live iteration: the fetch returned a payload
\* that decodes to a list of records, each with a Timelogged that parses
LiveFeedGood ==
    /\ live.raw.kind = "list"
    /\ \A i \in 1..Len(live.raw.recs) : live.raw.recs[i].tl = "ok"

\* C11: in live mode with ledger logging enabled, an iteration for which
\* the feed gave a list of good records (none included) stores its row
\* before the cadence pause: once the ledger step is over (the pause has
\* not begun, or the process has ended), the ledger holds a row whose mode
\* is "live", whose success flag is 1, whose num_records is the number of
\* records of the payload, whose process id and log path are the run's and
\* whose points-file path is the run's gzip file, or None without
\* retain-file.
C11_LiveRunRecorded ==
    (entry = "live" /\ args.log_run /\ LiveFeedGood /\ PastLedgerStep) =>
        \E r \in runs :
            /\ r.mode = "live"
            /\ r.success = 1
            /\ r.num_records = Len(live.raw.recs)
            /\ r.process_id = Pid
            /\ r.log_path = live.log_path
            /\ IF args.retain_file
               THEN r.points_file_path \in DOMAIN fs /\ fs[r.points_file_path].gz
               ELSE r.points_file_path = None

\* C12: in live mode, when fetch_api_data_live raised, the process is at
\* sys.exit(1): clean_data was not called, process_and_write has no frame
\* (no point was built, no file written), the store got no write and the
\* ledger no row.
C12_LiveFetchFailureIsFatal ==
    (entry = "live" /\ live.raw.kind = "fetch_raises") =>
        /\ pc = "exit1"
        /\ ~live.cleaned
        /\ DOMAIN pw = {}
        /\ fs = <<>>
        /\ store = <<>>
        /\ runs = {}
        /\ live.logged = "no"

\* C12 witness: the fetch of a live run with --db-write, --override and
\* --log-run raised and the process exited.
C12_Witness ==
    /\ entry = "live" /\ pc = "exit1"
    /\ live.raw.kind = "fetch_raises"
    /\ args.db_write /\ args.override /\ args.log_run

\* C13: once process_and_write has returned and the live iteration is over,
\* the process has slept exactly once, for wait_s - elapsed_s, when that
\* difference is positive, and has not slept at all but warned when it is
\* not; no other time.sleep call was made in the iteration.
C13_CadencePauseOnly ==
    (entry = "live" /\ live.returned /\ pc \in {"done", "raised"}) =>
        LET remaining_s == wait_s(live.config_wait, args) - live.elapsed_s
        IN  IF remaining_s > 0
            THEN sleeps = <<CadenceSleep(remaining_s)>>
            ELSE sleeps = <<>> /\ live.warned

(***************************************************************************)
(* process_and_write: the store decision and the records without a        *)
(* timestamp.                                                              *)
(***************************************************************************)
\* should_write_point: the stub logs its arguments and returns True
should_write_point(point, a) == TRUE

\* C14: when process_and_write returns with db-write enabled and override
\* disabled, every line of the run that should_write_point approves (all of
\* them, with the stub) has been written to the store.
C14_NoOverrideWritesApproved ==
    (entry = "pw" /\ pc = "done" /\ args.db_write /\ ~args.override) =>
        LET L == NonBlankLines(RunText(pw.cleaned_list))
            W == CallLines(store, Len(store))
        IN  \A i \in 1..Len(L) :
                should_write_point(L[i], args) => \E j \in 1..Len(W) : W[j] = L[i]

\* C18: a record without a parsable Timelogged does not make the record
\* loop of process_and_write raise and adds no line to the intermediate
\* file: after a run of one such record, whose build_points result differs
\* from what the directory held before, the loop has ended without an
\* exception and no file ends with that result.
C18_NoTimestampNoLine ==
    (entry = "pw" /\ pc # "pw_start" /\ Len(pw.cleaned_list) = 1
       /\ pw.cleaned_list[1].tl = "none"
       /\ pw.cleaned_list[1].out # StaleTmp[TmpPath].text) =>
        LET out == pw.cleaned_list[1].out
        IN  /\ pw.built
            /\ out # <<>> => \A q \in DOMAIN fs : ~EndsWith(fs[q].text, out)

(***************************************************************************)
(* Field classification and point building: bf2_rename_map.py             *)
(***************************************************************************)
MaxEntries == 2      \* build harness: entries of the mapping tables together
MaxFields == 2       \* build harness: fields of the record given to build_points

\* A raw variable name is a sequence of tokens: the two fixed parts of a
\* furnace-temperature name, digits, thermocouple letters, blanks, or a
\* whole plain name.
TempPrefix == "BF2_BFBD Furnace Body "
TempMiddle == "mm Temp "
Digits == {"0", "1", "2", "3", "4", "5", "6", "7", "8", "9"}

\* str.lower() of a token
lower(tok) ==
    CASE tok = "BF2_BFBD Furnace Body " -> "bf2_bfbd furnace body "
      [] tok = "mm Temp " -> "mm temp "
      [] tok = "A" -> "a"
      [] tok = "N" -> "n"
      [] tok = "O" -> "o"
      [] OTHER -> tok

\* the class [A-N] of TEMP_REGEX under re.I
TcClass == {"a", "b", "c", "d", "e", "f", "g", "h", "i", "j", "k", "l", "m", "n"}

\* TEMP_REGEX.fullmatch(raw_key.strip()): the prefix, one digit or more,
\* the middle part and one letter of A..N, case ignored
TEMP_REGEX_fullmatch(raw_key) ==
    LET s == strip(raw_key)
    IN  /\ Len(s) >= 4
        /\ lower(s[1]) = lower(TempPrefix)
        /\ \A i \in 2..(Len(s) - 2) : s[i] \in Digits
        /\ lower(s[Len(s) - 1]) = lower(TempMiddle)
        /\ lower(s[Len(s)]) \in TcClass

\* parse_furnace_temp: (level, tc.lower()) of a matching name, else None
parse_furnace_temp(raw_key) ==
    LET s == strip(raw_key)
    IN  IF ~TEMP_REGEX_fullmatch(raw_key) THEN None
        ELSE <<SubSeq(s, 2, Len(s) - 2), lower(s[Len(s)])>>

\* the five mapping tables of config/field_mappings.yaml, in the order
\* get_measurement_and_field consults them, and the measurement of each
TableNames ==
    <<"PROCESS_PARAMS_MAP", "HEATLOAD_MAP", "MISCELLANEOUS_MAP",
      "COOLING_WATER_MAP", "DELTA_T_MAP">>
MeasurementOf ==
    <<"process_params", "heatload_delta_t", "miscellaneous", "cooling_water",
      "delta_t">>

\* the measurement of a (None, None) answer
NoMeasurement == "None"

\* the entries of table number t of a deployment
TableKeysOf(entries, t) == {e.key : e \in {x \in entries : x.table = t}}
Lookup(entries, t, k) == (CHOOSE e \in entries : e.table = t /\ e.key = k).field

\* a plausible bug: the MISCELLANEOUS_MAP is consulted before the HEATLOAD_MAP
get_measurement_and_field_misc_first(entries, raw_key) ==
    IF TEMP_REGEX_fullmatch(raw_key) /\ parse_furnace_temp(raw_key) # None
    THEN [measurement |-> "temperature_profile",
          field_info |-> parse_furnace_temp(raw_key)]
    ELSE IF raw_key \in TableKeysOf(entries, 1)
    THEN [measurement |-> MeasurementOf[1], field_info |-> Lookup(entries, 1, raw_key)]
    ELSE IF raw_key \in TableKeysOf(entries, 3)
    THEN [measurement |-> MeasurementOf[3], field_info |-> Lookup(entries, 3, raw_key)]
    ELSE IF raw_key \in TableKeysOf(entries, 2)
    THEN [measurement |-> MeasurementOf[2], field_info |-> Lookup(entries, 2, raw_key)]
    ELSE IF raw_key \in TableKeysOf(entries, 4)
    THEN [measurement |-> MeasurementOf[4], field_info |-> Lookup(entries, 4, raw_key)]
    ELSE IF raw_key \in TableKeysOf(entries, 5)
    THEN [measurement |-> MeasurementOf[5], field_info |-> Lookup(entries, 5, raw_key)]
    ELSE [measurement |-> NoMeasurement, field_info |-> None]

\* a plausible bug: a COOLING_WATER_MAP key is answered with the delta_t
\* measurement
get_measurement_and_field_wrong_name(entries, raw_key) ==
    IF TEMP_REGEX_fullmatch(raw_key) /\ parse_furnace_temp(raw_key) # None
    THEN [measurement |-> "temperature_profile",
          field_info |-> parse_furnace_temp(raw_key)]
    ELSE IF raw_key \in TableKeysOf(entries, 1)
    THEN [measurement |-> MeasurementOf[1], field_info |-> Lookup(entries, 1, raw_key)]
    ELSE IF raw_key \in TableKeysOf(entries, 2)
    THEN [measurement |-> MeasurementOf[2], field_info |-> Lookup(entries, 2, raw_key)]
    ELSE IF raw_key \in TableKeysOf(entries, 3)
    THEN [measurement |-> MeasurementOf[3], field_info |-> Lookup(entries, 3, raw_key)]
    ELSE IF raw_key \in TableKeysOf(entries, 4)
    THEN [measurement |-> MeasurementOf[5], field_info |-> Lookup(entries, 4, raw_key)]
    ELSE IF raw_key \in TableKeysOf(entries, 5)
    THEN [measurement |-> MeasurementOf[5], field_info |-> Lookup(entries, 5, raw_key)]
    ELSE [measurement |-> NoMeasurement, field_info |-> None]

\* get_measurement_and_field: the temperature pattern first, then the five
\* tables in their order, else (None, None)
get_measurement_and_field(entries, raw_key) ==
    IF TEMP_REGEX_fullmatch(raw_key) /\ parse_furnace_temp(raw_key) # None
    THEN [measurement |-> "temperature_profile",
          field_info |-> parse_furnace_temp(raw_key)]
    ELSE IF raw_key \in TableKeysOf(entries, 1)
    THEN [measurement |-> MeasurementOf[1], field_info |-> Lookup(entries, 1, raw_key)]
    ELSE IF raw_key \in TableKeysOf(entries, 2)
    THEN [measurement |-> MeasurementOf[2], field_info |-> Lookup(entries, 2, raw_key)]
    ELSE IF raw_key \in TableKeysOf(entries, 3)
    THEN [measurement |-> MeasurementOf[3], field_info |-> Lookup(entries, 3, raw_key)]
    ELSE IF raw_key \in TableKeysOf(entries, 4)
    THEN [measurement |-> MeasurementOf[4], field_info |-> Lookup(entries, 4, raw_key)]
    ELSE IF raw_key \in TableKeysOf(entries, 5)
    THEN [measurement |-> MeasurementOf[5], field_info |-> Lookup(entries, 5, raw_key)]
    ELSE [measurement |-> NoMeasurement, field_info |-> None]

\* fields written as strings
STRING_FIELDS == {<<"hot_blast_temp_spare">>}

\* A raw value is its Python type and its text.
VNumber == <<"str", "7">>
VEmpty == <<"str", "">>
VNone == <<"NoneType", "None">>
VWord == <<"str", "abc">>

\* the texts float() parses
Numerals == {"7"}

\* float(v) succeeds on a str that is a number; it raises ValueError on
\* another str and TypeError on None
float_ok(v) == v[1] = "str" /\ v[2] \in Numerals

\* float(v), where it succeeds
float(v) == <<"float", v[2]>>

\* str(v) of a raw value
str_value(v) == <<"str", v[2]>>

\* Point(measurement).time(ts) with its tags and fields
Point(measurement, ts, tags, fields) ==
    [measurement |-> measurement, time |-> ts, tags |-> tags, fields |-> fields]

\* (mutant) a loop body without the skip of unknown names: a name that is
\* in no table gets a point of its own
build_point_unknown_emitted(entries, k, v, ts) ==
    LET mf == get_measurement_and_field(entries, k)
    IN  IF mf.measurement = NoMeasurement \/ mf.field_info = None
        THEN <<Point(NoMeasurement, ts, <<>>, << <<k, str_value(v)>> >>)>>
        ELSE IF float_ok(v)
        THEN <<Point(mf.measurement, ts, <<>>, << <<mf.field_info, float(v)>> >>)>>
        ELSE <<>>

\* the body of the loop of build_points for one item of the record: the
\* points it appends
build_point(entries, k, v, ts) ==
    LET mf == get_measurement_and_field(entries, k)
    IN  IF mf.measurement = NoMeasurement \/ mf.field_info = None THEN <<>>
        ELSE IF mf.measurement = "temperature_profile"
        THEN IF float_ok(v)
             THEN <<Point(mf.measurement, ts,
                          << <<"level_mm", mf.field_info[1]>>,
                             <<"thermocouple", <<mf.field_info[2]>> >> >>,
                          << <<<<"temp_c">>, float(v)>> >>)>>
             ELSE <<>>
        ELSE IF mf.field_info \in STRING_FIELDS
        THEN <<Point(mf.measurement, ts, <<>>, << <<mf.field_info, str_value(v)>> >>)>>
        ELSE IF float_ok(v)
        THEN <<Point(mf.measurement, ts, <<>>, << <<mf.field_info, float(v)>> >>)>>
        ELSE IF v = VEmpty \/ v = VNone
        THEN <<Point(mf.measurement, ts, <<>>, << <<mf.field_info, None>> >>)>>
        ELSE <<>>

\* points = []: the list a call of build_points starts from, whatever the
\* call before it returned
points_init(last) == <<>>

\* build_points: the points of the items of the record, in insertion order
RECURSIVE build_points(_, _, _)
build_points(entries, api_dict, ts) ==
    IF api_dict = <<>> THEN <<>>
    ELSE build_point(entries, Head(api_dict)[1], Head(api_dict)[2], ts)
         \o build_points(entries, Tail(api_dict), ts)

(***************************************************************************)
(* Build harness: one call of get_measurement_and_field or build_points    *)
(* under any small deployment of the mapping tables.                       *)
(***************************************************************************)
K1 == <<"BF2_HotBlast Temp Spare">>
K2 == <<"BF2_Cold Blast Flow">>
K3 == <<"not_a_key">>
KTemp == <<" ", "bf2_bfbd furnace body ", "1", "2", "mm temp ", "n">>

\* the names a call of get_measurement_and_field is made with
RawKeys ==
    { K1, K2, K3, KTemp,
      <<TempPrefix, "1", TempMiddle, "A">>,
      <<TempPrefix, TempMiddle, "A">>,
      <<TempPrefix, "1", TempMiddle, "O">>,
      <<TempPrefix, "1", "x", TempMiddle, "A">> }

\* the entries a table can have
Entries ==
    [table : 1..5, key : {K1}, field : {<<"f1">>, <<"hot_blast_temp_spare">>}]
    \cup [table : 1..5, key : {K2}, field : {<<"f2">>}]
    \cup [table : 1..5, key : {KTemp}, field : {<<"f3">>}]

\* the deployments: a table maps a key to one field
Deployments ==
    { E \in SUBSET Entries :
        /\ Cardinality(E) <= MaxEntries
        /\ \A e1, e2 \in E : (e1.table = e2.table /\ e1.key = e2.key) => e1 = e2 }

Values == {VNumber, VEmpty, VNone, VWord}

RECURSIVE DictsUpTo(_)
DictsUpTo(n) ==
    IF n = 0 THEN {<<>>}
    ELSE DictsUpTo(n - 1) \cup
         { Append(d, <<k, v>>) :
             d \in {x \in DictsUpTo(n - 1) : Len(x) = n - 1},
             k \in {K1, K2, KTemp}, v \in Values }

\* the records: a dict has each key once, in insertion order
ApiDicts ==
    { d \in DictsUpTo(MaxFields) :
        \A i, j \in 1..Len(d) : d[i][1] = d[j][1] => i = j }

\* the record of the call made between a call of build_points and its
\* repetition
OtherDict == << <<K2, VNumber>>, <<K1, VEmpty>> >>

\* result is what the first call returned, last what the most recent call
\* returned, second what the repetition of the first call returned
BPFrame(entries) ==
    [entries |-> entries, op |-> "none", raw_key |-> <<>>, api_dict |-> <<>>,
     ts |-> "None", result |-> <<>>, stage |-> "none", last |-> <<>>,
     second |-> <<>>]

InitBuild ==
    /\ entry = "build"
    /\ pc = "bp_start"
    /\ args = NoFrame
    /\ today = 1
    /\ units = <<>>
    /\ pd = NoFrame
    /\ pw = NoFrame
    /\ w = NoFrame
    /\ fs = <<>>
    /\ store = <<>>
    /\ runs = {}
    /\ nextId = 1
    /\ clients = 0
    /\ clock = 0
    /\ hist = <<>>
    /\ sleeps = <<>>
    /\ live = NoFrame
    /\ argv = NoFrame
    /\ schema = init_db_tables({})
    /\ dc = NoFrame
    /\ ft = NoFrame
    /\ procs = NoFrame
    /\ \E E \in Deployments : bp = BPFrame(E)

\* a call get_measurement_and_field(raw_key)
bp_classify ==
    /\ pc = "bp_start"
    /\ \E k \in RawKeys :
         bp' = [bp EXCEPT !.op = "get_measurement_and_field", !.raw_key = k,
                          !.result = get_measurement_and_field(bp.entries, k)]
    /\ pc' = "done"
    /\ UNCHANGED <<entry, args, today, units, pd, pw, w, fs, store, runs,
                   nextId, clients, clock, hist, sleeps, live, argv, schema, dc,
                   ft, procs>>

\* a call build_points(api_dict, ts)
bp_build ==
    /\ pc = "bp_start"
    /\ \E d \in ApiDicts, ts \in {"utc", "None"} :
         LET points == points_init(bp.last) \o build_points(bp.entries, d, ts)
         IN  bp' = [bp EXCEPT !.op = "build_points", !.api_dict = d, !.ts = ts,
                              !.result = points, !.last = points,
                              !.stage = "first"]
    /\ pc' = "done"
    /\ UNCHANGED <<entry, args, today, units, pd, pw, w, fs, store, runs,
                   nextId, clients, clock, hist, sleeps, live, argv, schema, dc,
                   ft, procs>>

\* a call of build_points with another record, after the first call (the
\* harness goes on after the first call under the deployments that are not
\* of the largest size)
bp_other ==
    /\ pc = "done"
    /\ bp.op = "build_points" /\ bp.stage = "first"
    /\ Cardinality(bp.entries) < MaxEntries
    /\ LET points == points_init(bp.last)
                      \o build_points(bp.entries, OtherDict, "utc")
       IN  bp' = [bp EXCEPT !.last = points, !.stage = "other"]
    /\ UNCHANGED <<entry, pc, args, today, units, pd, pw, w, fs, store, runs,
                   nextId, clients, clock, hist, sleeps, live, argv, schema, dc,
                   ft, procs>>

\* the first call of build_points made again, with the same record and the
\* same timestamp, after the call with the other record
bp_again ==
    /\ pc = "done"
    /\ bp.op = "build_points" /\ bp.stage = "other"
    /\ LET points == points_init(bp.last)
                      \o build_points(bp.entries, bp.api_dict, bp.ts)
       IN  bp' = [bp EXCEPT !.second = points, !.last = points,
                            !.stage = "again"]
    /\ UNCHANGED <<entry, pc, args, today, units, pd, pw, w, fs, store, runs,
                   nextId, clients, clock, hist, sleeps, live, argv, schema, dc,
                   ft, procs>>

NextBuild == bp_classify \/ bp_build \/ bp_other \/ bp_again

SpecBuild == InitBuild /\ [][NextBuild]_vars

(***************************************************************************)
(* Classification and point building: the claims.                          *)
(***************************************************************************)
ClassifyDone ==
    entry = "build" /\ pc = "done" /\ bp.op = "get_measurement_and_field"
BuildDone == entry = "build" /\ pc = "done" /\ bp.op = "build_points"

\* the tables that hold a name, by their place in the fixed order; place 0
\* is the temperature table, whose keys are the names the pattern matches
Holders(entries, k) ==
    {t \in 1..5 : k \in TableKeysOf(entries, t)}
    \cup (IF TEMP_REGEX_fullmatch(k) THEN {0} ELSE {})

\* what the table at place t declares for a name it holds
EntryOf(entries, t, k) ==
    IF t = 0
    THEN [measurement |-> "temperature_profile",
          field_info |-> <<SubSeq(strip(k), 2, Len(strip(k)) - 2),
                           lower(strip(k)[Len(strip(k))])>>]
    ELSE [measurement |-> MeasurementOf[t],
          field_info |-> (CHOOSE e \in entries : e.table = t /\ e.key = k).field]

\* no name is held by two of the six tables
KeyDisjoint(entries) ==
    \A e \in entries : Cardinality(Holders(entries, e.key)) = 1

Min(S) == CHOOSE x \in S : \A y \in S : x <= y

\* C19: when the mapping tables are key-disjoint, the answer of
\* get_measurement_and_field for a key of a table is that table's
\* measurement name and the field identity the table maps the key to.
C19_ClassifiedByItsTable ==
    (ClassifyDone /\ KeyDisjoint(bp.entries)) =>
        \A t \in Holders(bp.entries, bp.raw_key) :
            bp.result = EntryOf(bp.entries, t, bp.raw_key)

\* C19 witness: under a key-disjoint deployment of two entries, a key of
\* the COOLING_WATER_MAP was classified as cooling_water.
C19_Witness ==
    /\ ClassifyDone /\ KeyDisjoint(bp.entries)
    /\ Cardinality(bp.entries) = 2
    /\ bp.raw_key \in TableKeysOf(bp.entries, 4)
    /\ bp.result.measurement = "cooling_water"

\* C20: for a name held by more than one table, the answer of
\* get_measurement_and_field is the entry of the first of them in the order
\* temperature_profile, process_params, heatload_delta_t, miscellaneous,
\* cooling_water, delta_t.
C20_FirstTableWins ==
    (ClassifyDone /\ Cardinality(Holders(bp.entries, bp.raw_key)) >= 2) =>
        bp.result = EntryOf(bp.entries, Min(Holders(bp.entries, bp.raw_key)),
                            bp.raw_key)

\* C20 witness: a name held by the HEATLOAD_MAP and the MISCELLANEOUS_MAP was
\* classified as heatload_delta_t.
C20_Witness ==
    /\ ClassifyDone
    /\ Holders(bp.entries, bp.raw_key) = {2, 3}
    /\ bp.result.measurement = "heatload_delta_t"

\* the items of the record that classify into measurement m and coerce to
\* a number (forced-string fields are not coerced)
Coerced(m) ==
    { i \in 1..Len(bp.api_dict) :
        LET mf == get_measurement_and_field(bp.entries, bp.api_dict[i][1])
        IN  /\ mf.measurement = m
            /\ mf.field_info \notin STRING_FIELDS
            /\ float_ok(bp.api_dict[i][2]) }

Measurements ==
    {"temperature_profile"} \cup {MeasurementOf[t] : t \in 1..5}

\* every item of the record is a number and none is a forced-string field
AllCoerce ==
    \A i \in 1..Len(bp.api_dict) :
        /\ float_ok(bp.api_dict[i][2])
        /\ get_measurement_and_field(bp.entries, bp.api_dict[i][1]).field_info
             \notin STRING_FIELDS

\* C15: for a record whose values are all numbers and that has no
\* forced-string field, build_points gives exactly one point for each
\* measurement with at least one coerced field and none for the others; the
\* point carries all coerced fields of its measurement and the timestamp
\* of the call, and the points come in first-seen order of their
\* measurements.
C15_OnePointPerMeasurement ==
    (BuildDone /\ AllCoerce) =>
        /\ \A m \in Measurements :
             LET pts == {j \in 1..Len(bp.result) : bp.result[j].measurement = m}
             IN  /\ Cardinality(pts) = IF Coerced(m) = {} THEN 0 ELSE 1
                 /\ \A j \in pts :
                      /\ Len(bp.result[j].fields) = Cardinality(Coerced(m))
                      /\ bp.result[j].time = bp.ts
        /\ \A j1, j2 \in 1..Len(bp.result) :
             j1 < j2 => Min(Coerced(bp.result[j1].measurement))
                        < Min(Coerced(bp.result[j2].measurement))

\* the name under which a classified field is written into a point
FieldName(mf) ==
    IF mf.measurement = "temperature_profile" THEN <<"temp_c">> ELSE mf.field_info

\* C16: a classified field (outside the forced-string list) whose raw value
\* is an empty string, None or not a number is in no point of the result:
\* no point of its measurement has a field of its name, whatever the value.
C16_FailedCoercionOmitted ==
    BuildDone =>
        \A i \in 1..Len(bp.api_dict) :
            LET mf == get_measurement_and_field(bp.entries, bp.api_dict[i][1])
            IN  (/\ mf.measurement # NoMeasurement
                 /\ mf.field_info \notin STRING_FIELDS
                 /\ ~float_ok(bp.api_dict[i][2])) =>
                    ~\E j \in 1..Len(bp.result) :
                        /\ bp.result[j].measurement = mf.measurement
                        /\ \E f \in 1..Len(bp.result[j].fields) :
                             bp.result[j].fields[f][1] = FieldName(mf)

\* C17: no point build_points gives has a field whose identity is in
\* STRING_FIELDS.
C17_StringFieldsNeverEmitted ==
    BuildDone =>
        \A j \in 1..Len(bp.result) :
            \A f \in 1..Len(bp.result[j].fields) :
                bp.result[j].fields[f][1] \notin STRING_FIELDS

\* the name is a key of one of the five tables or a temperature name
InSomeTable(entries, k) ==
    (\E e \in entries : e.key = k) \/ TEMP_REGEX_fullmatch(k)

\* the items of a record whose name is in some table
KnownItems(entries, api_dict) ==
    SelectSeq(api_dict, LAMBDA it : InSomeTable(entries, it[1]))

\* the points of the items of a record, item by item
RECURSIVE PointsOfItems(_, _, _)
PointsOfItems(entries, items, ts) ==
    IF items = <<>> THEN <<>>
    ELSE build_point(entries, Head(items)[1], Head(items)[2], ts)
         \o PointsOfItems(entries, Tail(items), ts)

\* C21: for a raw name that is in no mapping table get_measurement_and_field
\* answers (None, None), and a call of build_points returns exactly the
\* points of the record's items whose names are in some table, in their
\* order: a name in no table adds no point and stops nothing.
C21_UnknownNamesSkipped ==
    /\ (ClassifyDone /\ ~InSomeTable(bp.entries, bp.raw_key)) =>
          bp.result = [measurement |-> NoMeasurement, field_info |-> None]
    /\ (BuildDone /\ bp.stage = "first") =>
          /\ bp.result = PointsOfItems(bp.entries,
                                       KnownItems(bp.entries, bp.api_dict), bp.ts)
          /\ \A i \in 1..Len(bp.result) :
                bp.result[i].measurement # NoMeasurement

\* C21 witness: a record whose first name is in no table and whose second
\* name is a mapped one with a number gave the one point of the second.
C21_Witness ==
    /\ BuildDone
    /\ Len(bp.api_dict) = 2
    /\ ~InSomeTable(bp.entries, bp.api_dict[1][1])
    /\ InSomeTable(bp.entries, bp.api_dict[2][1])
    /\ float_ok(bp.api_dict[2][2])
    /\ Len(bp.result) = 1

(***************************************************************************)
(* The sweep: the default date and the variable allow-list.                *)
(***************************************************************************)
\* the command line: daily mode without --date, --startdate and --enddate
DefaultDaily ==
    /\ entry = "main"
    /\ argv.mode = "daily"
    /\ argv.date = NoDate /\ argv.startdate = NoDate /\ argv.enddate = NoDate

\* the (date, range) pairs of the process_datewise calls made so far
CalledUnits == [i \in 1..Len(Calls) |-> <<Calls[i][2], Calls[i][3]>>]

\* the units of the day before the current UTC date
YesterdayUnits == << <<today - 1, 1>>, <<today - 1, 2>> >>

\* C30: in daily mode with no date, start date or end date given, the
\* process_datewise calls are those of the day before the current UTC date,
\* range 1 then range 2: at every moment the calls made are the first ones
\* of that pair, nothing is fetched for another date, the process ends
\* normally, and when it has ended both calls were made.
C30_DailyDefaultIsYesterday ==
    DefaultDaily =>
        /\ Len(CalledUnits) <= 2
        /\ CalledUnits = SubSeq(YesterdayUnits, 1, Len(CalledUnits))
        /\ \A i \in Hist : hist[i][1] = "fetch" => hist[i][2] = today - 1
        /\ pc \notin {"raised", "exit1"}
        /\ pc = "done" => CalledUnits = YesterdayUnits

\* C30 witness: such a run has ended after its two units
C30_Witness ==
    /\ DefaultDaily
    /\ pc = "done"
    /\ Len(Calls) = 2
    /\ \E i \in Hist : hist[i][1] = "pw_returned" /\ hist[i][3] = 2

\* the command line names a variable file, a start date and an end date
WithVariableFile ==
    /\ entry = "main"
    /\ argv.variable_file # None
    /\ argv.startdate # NoDate /\ argv.enddate # NoDate

\* the names the variable file allows, and Timelogged
AllowedNames ==
    {read_variable_file(VarFileLines)[i] :
        i \in 1..Len(read_variable_file(VarFileLines))} \cup {Timelogged}

\* C25: when a variable file is given together with a start and an end
\* date, every record list that process_and_write has gone through in that
\* invocation, or has left by an exception, handed only allow-listed names
\* and Timelogged to build_points; start equal to end is no exception.
C25_AllowListRestrictsEveryUnit ==
    (WithVariableFile /\ pc \in {"pd_after_pw", "pd_except"}) =>
        \A i \in 1..Len(pw.classified) :
            \A j \in 1..Len(pw.classified[i]) :
                pw.classified[i][j] \in AllowedNames


(***************************************************************************)
(* Decode harness: one call of clean_and_parse_data or of clean_data on    *)
(* any small payload.                                                      *)
(***************************************************************************)
MaxPayload == 6      \* tokens of a payload with markup
MaxRun == 3          \* tokens of a payload of any tokens

\* the tokens of the payloads with markup
MarkupTokens == {ScrHalf, IptHalf, ScriptOpen, ScriptClose, Blank, ListLit}

\* every token of a payload
Tokens == MarkupTokens \cup Literals \cup {Junk}

\* the payloads: any markup around a list literal, any short run of tokens
\* (every literal alone, literals side by side, junk), every shape of
\* literal after a script span, and None, which fetch_api_data_live gives
\* for a response without text
Payloads ==
    UNION {[1..n -> MarkupTokens] : n \in 0..MaxPayload}
    \cup UNION {[1..n -> Tokens] : n \in 0..MaxRun}
    \cup {<<ScriptOpen, Junk, ScriptClose, l>> : l \in Literals}
    \cup {None}

DCFrame(raw_data) ==
    [raw_data |-> raw_data, op |-> "none",
     result |-> [raised |-> FALSE, exc |-> "none", shape |-> "none",
                 value |-> Junk]]

InitDecode ==
    /\ entry = "decode"
    /\ pc = "dc_start"
    /\ args = NoFrame
    /\ today = 1
    /\ units = <<>>
    /\ pd = NoFrame
    /\ pw = NoFrame
    /\ w = NoFrame
    /\ fs = <<>>
    /\ store = <<>>
    /\ runs = {}
    /\ nextId = 1
    /\ clients = 0
    /\ clock = 0
    /\ hist = <<>>
    /\ sleeps = <<>>
    /\ bp = NoFrame
    /\ live = NoFrame
    /\ argv = NoFrame
    /\ schema = init_db_tables({})
    /\ ft = NoFrame
    /\ procs = NoFrame
    /\ \E raw_data \in Payloads : dc = DCFrame(raw_data)

\* a call clean_and_parse_data(raw_data)
dc_parse ==
    /\ pc = "dc_start"
    /\ dc' = [dc EXCEPT !.op = "clean_and_parse_data",
                        !.result = clean_and_parse_data(dc.raw_data)]
    /\ pc' = "done"
    /\ UNCHANGED <<entry, args, today, units, pd, pw, w, fs, store, runs,
                   nextId, clients, clock, hist, sleeps, bp, live, argv, schema,
                   ft, procs>>

\* a call clean_data(raw_data, date_str, mode)
dc_clean ==
    /\ pc = "dc_start"
    /\ dc' = [dc EXCEPT !.op = "clean_data", !.result = clean_data(dc.raw_data)]
    /\ pc' = "done"
    /\ UNCHANGED <<entry, args, today, units, pd, pw, w, fs, store, runs,
                   nextId, clients, clock, hist, sleeps, bp, live, argv, schema,
                   ft, procs>>

NextDecode == dc_parse \/ dc_clean

SpecDecode == InitDecode /\ [][NextDecode]_vars

ParseDone == entry = "decode" /\ pc = "done" /\ dc.op = "clean_and_parse_data"
CleanDone == entry = "decode" /\ pc = "done" /\ dc.op = "clean_data"

\* C22: clean_and_parse_data raises whenever the cleaned payload is not a
\* literal list of string-keyed mappings: what it returns without raising
\* is such a list, never a mapping, a string, a number or a list of
\* something else.
C22_OnlyRecordListsDecode ==
    (ParseDone /\ ~dc.result.raised) => dc.result.shape = "list of dict"

\* the payload with the script spans it contains taken out
SpansRemoved(raw_data) == Canon(re_sub(Canon(raw_data)))

\* the payload contains a script span
HasSpan(raw_data) == SpansRemoved(raw_data) # Canon(raw_data)

\* C23: decoding a payload that contains script spans gives what decoding
\* the payload with those spans removed gives: the same records, or a
\* failure in both cases.
C23_SpansDoNotMatter ==
    (ParseDone /\ HasSpan(dc.raw_data)) =>
        dc.result = clean_and_parse_data(SpansRemoved(dc.raw_data))

\* C29: clean_data never raises; it returns what clean_and_parse_data
\* returns when that call returns, and the int 0 when that call raises.
C29_CleanDataNeverRaises ==
    CleanDone =>
        /\ ~dc.result.raised
        /\ LET r == clean_and_parse_data(dc.raw_data)
           IN  IF r.raised
               THEN dc.result.shape = "int" /\ dc.result.value = Zero
               ELSE dc.result.shape = r.shape /\ dc.result.value = r.value

\* C29 witness: clean_data gave 0 for a payload that is a number, on which
\* clean_and_parse_data raises TypeError
C29_Witness ==
    /\ CleanDone
    /\ dc.raw_data = <<NumLit>>
    /\ dc.result.value = Zero
    /\ clean_and_parse_data(dc.raw_data).exc = "TypeError"


(***************************************************************************)
(* fetch_api_data harness: one call on its own.                            *)
(***************************************************************************)
\* the calls made: max_retries is the default 3 or a smaller positive number
\* (the tests pass 1)
InitFetch ==
    /\ entry = "fetch"
    /\ pc = "ft_loop"
    /\ args = NoFrame
    /\ today = 1
    /\ units = <<>>
    /\ pd = NoFrame
    /\ pw = NoFrame
    /\ w = NoFrame
    /\ fs = <<>>
    /\ store = <<>>
    /\ runs = {}
    /\ nextId = 1
    /\ clients = 0
    /\ clock = 0
    /\ hist = <<>>
    /\ sleeps = <<>>
    /\ bp = NoFrame
    /\ live = NoFrame
    /\ argv = NoFrame
    /\ schema = init_db_tables({})
    /\ dc = NoFrame
    /\ procs = NoFrame
    /\ \E d \in Days, r \in Ranges, m \in 1..MaxRetries :
         ft = FTFrame(DateFmt(d), r, m, FetchDelay)

NextFetch == ft_attempt

SpecFetch == InitFetch /\ [][NextFetch]_vars

\* the attempts before the last one made all failed
EarlierFailed ==
    \A i \in 1..(Len(ft.outcomes) - 1) : ft.outcomes[i] # "text"

\* C26: fetch_api_data makes at most max_retries requests; it returns the
\* text of the first attempt that succeeds and makes no request after it;
\* it sleeps delay once after every failed attempt but the last allowed
\* one; an empty response is a failed attempt like the others; when all
\* max_retries attempts failed it raises the exception of the last one; it
\* never returns None.
C26_FetchRetries ==
    entry = "fetch" =>
        /\ ft.requests = Len(ft.outcomes)
        /\ ft.requests <= ft.max_retries
        /\ EarlierFailed
        /\ \A i \in 1..Len(sleeps) : sleeps[i] = RetrySleep(ft.delay)
        /\ pc = "ft_loop" =>
              /\ ft.result = <<"running">>
              /\ Len(sleeps) = ft.requests
              /\ ft.requests < ft.max_retries
        /\ pc = "done" =>
              /\ ft.outcomes[ft.requests] = "text"
              /\ ft.result = <<"returned", FeedText(ft.date_str, ft.range_param)>>
              /\ Len(sleeps) = ft.requests - 1
        /\ pc = "raised" =>
              /\ ft.requests = ft.max_retries
              /\ ft.outcomes[ft.requests] # "text"
              /\ ft.result = <<"raised", ft.outcomes[ft.requests]>>
              /\ Len(sleeps) = ft.max_retries - 1
        /\ pc \in {"ft_loop", "done", "raised"}

\* C26 witness: a call with max_retries 3 met an error, an empty response
\* and an error, slept twice and raised the last error
C26_Witness ==
    /\ entry = "fetch"
    /\ pc = "raised"
    /\ ft.max_retries = 3
    /\ ft.outcomes = <<"HTTPError", "AssertionError", "ParseError">>
    /\ ft.result = <<"raised", "ParseError">>
    /\ Len(sleeps) = 2


(***************************************************************************)
(* Two processes on one output directory: each runs the file steps of one  *)
(* process_and_write call, in any interleaving.                            *)
(***************************************************************************)
\* the process ids of two processes that run at the same time
Pids == {Pid, Pid + 1}

\* the line build_points gives for a record of the data a process works on,
\* where it gives a text
LineOf(pid) == IF pid = Pid THEN <<"a", NL>> ELSE <<"b", NL>>

\* what build_points gives in the two processes, which run the same code: a
\* line of text, or the list of points of bf2_rename_map
PointsOf(pid, text) == IF text THEN LineOf(pid) ELSE NotStr

\* the locals of process_and_write in one process: the records still to
\* write, what build_points gives for each, the lines written, the
\* retain_file flag, the canonical path and f_in, the content of the file
\* the process has open for reading
PFrame(n, retain_file, range, points) ==
    [pc |-> "records", todo |-> n, written |-> 0, retain_file |-> retain_file,
     final |-> FinalPath("daily", DateFmtFile(1), range, None),
     points |-> points, f_in |-> None]

InitTwo ==
    /\ entry = "two"
    /\ pc = "running"
    /\ args = NoFrame
    /\ today = 1
    /\ units = <<>>
    /\ pd = NoFrame
    /\ pw = NoFrame
    /\ w = NoFrame
    /\ fs = <<>>
    /\ store = <<>>
    /\ runs = {}
    /\ nextId = 1
    /\ clients = 0
    /\ clock = 0
    /\ hist = <<>>
    /\ sleeps = <<>>
    /\ bp = NoFrame
    /\ live = NoFrame
    /\ argv = NoFrame
    /\ schema = init_db_tables({})
    /\ dc = NoFrame
    /\ ft = NoFrame
    /\ \E text \in BOOLEAN :
         procs \in {f \in [Pids -> {PFrame(n, r, g, x) :
                                      n \in 0..MaxRecs, r \in BOOLEAN,
                                      g \in Ranges,
                                      x \in {PointsOf(q, text) : q \in Pids}}] :
                       \A q \in Pids : f[q].points = PointsOf(q, text)}

\* process p: one turn of the record loop, write_points_to_txt on the
\* process's own write_filename; its TypeError ends process_and_write
p_write(p) ==
    /\ procs[p].pc = "records"
    /\ procs[p].todo > 0
    /\ LET r == write_points_to_txt(fs, TmpPathOf(p), procs[p].points)
       IN  /\ fs' = r.fs
           /\ procs' = IF r.raised
                       THEN [procs EXCEPT ![p].pc = "raised"]
                       ELSE [procs EXCEPT ![p].todo = @ - 1,
                                          ![p].written = @ + 1]
    /\ hist' = Append(hist, <<"write", p, TmpPathOf(p)>>)
    /\ UNCHANGED <<entry, pc, args, today, units, pd, pw, w, store, runs,
                   nextId, clients, clock, sleeps, bp, live, argv, schema, dc,
                   ft>>

\* process p, with retain_file: os.rename(write_filename, points_file_final)
p_rename(p) ==
    /\ procs[p].pc = "records"
    /\ procs[p].todo = 0
    /\ procs[p].retain_file
    /\ IF TmpPathOf(p) \in DOMAIN fs
       THEN /\ fs' = os_rename(fs, TmpPathOf(p), procs[p].final)
            /\ procs' = [procs EXCEPT ![p].pc = "open"]
       ELSE /\ fs' = fs
            /\ procs' = [procs EXCEPT ![p].pc = "raised"]
    /\ hist' = Append(hist, <<"rename", p, TmpPathOf(p)>>)
    /\ UNCHANGED <<entry, pc, args, today, units, pd, pw, w, store, runs,
                   nextId, clients, clock, sleeps, bp, live, argv, schema, dc,
                   ft>>

\* process p: open(points_file_final, "rb"), the first item of the with
\* statement; it raises FileNotFoundError when the file is not there. The
\* open file stays what it is when its name is given to another file or
\* removed
p_open(p) ==
    /\ procs[p].pc = "open"
    /\ procs' = IF procs[p].final \in DOMAIN fs
                THEN [procs EXCEPT ![p].pc = "gzip_open",
                                   ![p].f_in = fs[procs[p].final].text]
                ELSE [procs EXCEPT ![p].pc = "raised"]
    /\ UNCHANGED <<entry, pc, args, today, units, pd, pw, w, fs, store, runs,
                   nextId, clients, clock, hist, sleeps, bp, live, argv,
                   schema, dc, ft>>

\* process p: gzip.open(gzipped_path, "wb"), the second item of the with
\* statement
p_gzip_open(p) ==
    /\ procs[p].pc = "gzip_open"
    /\ fs' = gzip_open(fs, GzPath(procs[p].final))
    /\ procs' = [procs EXCEPT ![p].pc = "gzip"]
    /\ UNCHANGED <<entry, pc, args, today, units, pd, pw, w, store, runs,
                   nextId, clients, clock, hist, sleeps, bp, live, argv,
                   schema, dc, ft>>

\* process p: f_out.writelines(f_in) and the end of the with block, where
\* the member is written to the file the process opened
p_gzip(p) ==
    /\ procs[p].pc = "gzip"
    /\ fs' = gzip_close(fs, GzPath(procs[p].final), procs[p].f_in)
    /\ procs' = [procs EXCEPT ![p].pc = "remove"]
    /\ UNCHANGED <<entry, pc, args, today, units, pd, pw, w, store, runs,
                   nextId, clients, clock, hist, sleeps, bp, live, argv,
                   schema, dc, ft>>

\* process p: os.remove(points_file_final), which raises FileNotFoundError
\* when the file is not there, then the return
p_remove(p) ==
    /\ procs[p].pc = "remove"
    /\ IF procs[p].final \in DOMAIN fs
       THEN /\ fs' = Remove(fs, procs[p].final)
            /\ procs' = [procs EXCEPT ![p].pc = "returned"]
       ELSE /\ fs' = fs
            /\ procs' = [procs EXCEPT ![p].pc = "raised"]
    /\ UNCHANGED <<entry, pc, args, today, units, pd, pw, w, store, runs,
                   nextId, clients, clock, hist, sleeps, bp, live, argv,
                   schema, dc, ft>>

\* process p, without retain_file: the removal of the write_filename when
\* it exists, then the return
p_finish(p) ==
    /\ procs[p].pc = "records"
    /\ procs[p].todo = 0
    /\ ~procs[p].retain_file
    /\ fs' = remove_if_exists(fs, TmpPathOf(p))
    /\ procs' = [procs EXCEPT ![p].pc = "returned"]
    /\ hist' = Append(hist, <<"finish", p, TmpPathOf(p)>>)
    /\ UNCHANGED <<entry, pc, args, today, units, pd, pw, w, store, runs,
                   nextId, clients, clock, sleeps, bp, live, argv, schema, dc,
                   ft>>

\* a step of either process
two_write == \E p \in Pids : p_write(p)
two_rename == \E p \in Pids : p_rename(p)
two_open == \E p \in Pids : p_open(p)
two_gzip_open == \E p \in Pids : p_gzip_open(p)
two_gzip == \E p \in Pids : p_gzip(p)
two_remove == \E p \in Pids : p_remove(p)
two_finish == \E p \in Pids : p_finish(p)

NextTwo ==
    \/ two_write
    \/ two_rename
    \/ two_open
    \/ two_gzip_open
    \/ two_gzip
    \/ two_remove
    \/ two_finish

SpecTwo == InitTwo /\ [][NextTwo]_vars

\* n copies of a line
RECURSIVE Repeat(_, _)
Repeat(line, n) == IF n = 0 THEN <<>> ELSE line \o Repeat(line, n - 1)

\* C28: with two processes at work on the same output directory, the
\* intermediate file of a process is touched by that process alone: every
\* file step of a process names the file of its own pid, and while a
\* process is in its record loop its file holds exactly the lines that
\* process has written (no line of the other, none lost, and the file is
\* there as soon as one line was written).
C28_OwnIntermediateFileOnly ==
    entry = "two" =>
        /\ \A i \in 1..Len(hist) : hist[i][3] = <<"output", "tmp", hist[i][2]>>
        /\ \A p \in Pids :
              procs[p].pc = "records" =>
                  IF procs[p].written = 0
                  THEN <<"output", "tmp", p>> \notin DOMAIN fs
                  ELSE /\ <<"output", "tmp", p>> \in DOMAIN fs
                       /\ fs[<<"output", "tmp", p>>].text
                              = Repeat(procs[p].points, procs[p].written)

\* C28 witness: one process has written its two lines and not finished,
\* while the other has written a line and removed its file
C28_Witness ==
    /\ entry = "two"
    /\ procs[Pid].pc = "records" /\ procs[Pid].written = 2
    /\ procs[Pid + 1].pc = "returned" /\ procs[Pid + 1].written = 1
    /\ ~procs[Pid + 1].retain_file
    /\ Len(hist) = 4
    /\ hist[4][2] = Pid
    /\ fs[TmpPathOf(Pid)].text = Repeat(LineOf(Pid), 2)

(***************************************************************************)
(* write_to_file.py: the CSV and text writers of the top-level main.py.    *)
(***************************************************************************)
\* os.path.join(out_dir, f"{table}_{date_str}.csv")
CsvPath(table, date_str) == <<"output", "csv", table, date_str>>

\* the file of write_to_file.write_points_to_txt: <date_str>.txt, in live
\* mode a file named after datetime.now()
PointsTxtPath(date_str, mode, now) ==
    IF mode = "live" THEN <<"output", "txt", "now", now>>
    ELSE <<"output", "txt", date_str>>

\* row.get(key): None when the record has no such key, which csv writes as
\* the empty cell; a cell is the sequence of its characters
row_get(row, key) == IF key \in DOMAIN row THEN row[key] ELSE <<>>

\* the characters for which csv (QUOTE_MINIMAL, the default) puts a cell in
\* quotes: the delimiter, the quote and those of the line end
CsvSpecial == {",", "\"", "\r", NL}

\* a cell in quotes, each quote of the cell written twice
RECURSIVE CsvQuoted(_)
CsvQuoted(cell) ==
    IF cell = <<>> THEN <<>>
    ELSE (IF Head(cell) = "\"" THEN <<"\"", "\"">> ELSE <<Head(cell)>>)
         \o CsvQuoted(Tail(cell))

\* a cell as csv writes it
CsvCell(cell) ==
    IF \E i \in 1..Len(cell) : cell[i] \in CsvSpecial
    THEN <<"\"">> \o CsvQuoted(cell) \o <<"\"">>
    ELSE cell

\* the cells of a line with a comma between two
RECURSIVE CsvJoin(_)
CsvJoin(cells) ==
    IF cells = <<>> THEN <<>>
    ELSE IF Len(cells) = 1 THEN CsvCell(cells[1])
    ELSE CsvCell(cells[1]) \o <<",">> \o CsvJoin(Tail(cells))

\* a line of csv.DictWriter: the cells, a comma between two, "\r\n" at the
\* end; a line whose only cell is empty is written as two quotes
CsvLine(cells) ==
    IF cells = << <<>> >> THEN <<"\"", "\"", "\r\n">>
    ELSE CsvJoin(cells) \o <<"\r\n">>

\* writer.writeheader(), then writer.writerow(filtered) for each record
RECURSIVE CsvRows(_, _)
CsvRows(cleaned_data, fieldnames) ==
    IF cleaned_data = <<>> THEN <<>>
    ELSE CsvLine([i \in 1..Len(fieldnames) |->
                     row_get(Head(cleaned_data), fieldnames[i])])
         \o CsvRows(Tail(cleaned_data), fieldnames)

\* write_to_csv: one file per table of table_config, opened with "w", with
\* the header ['Timelogged'] + variables and a row per record
RECURSIVE write_to_csv(_, _, _, _)
write_to_csv(files, cleaned_data, table_config, date_str) ==
    IF table_config = <<>> THEN files
    ELSE LET table == Head(table_config)[1]
             fieldnames == <<"Timelogged">> \o Head(table_config)[2]
             header == [i \in 1..Len(fieldnames) |-> <<fieldnames[i]>>]
             text == CsvLine(header) \o CsvRows(cleaned_data, fieldnames)
         IN  write_to_csv((CsvPath(table, date_str) :> TextFile(text)) @@ files,
                          cleaned_data, Tail(table_config), date_str)

\* point.to_line_protocol() of a point of the list
to_line_protocol(point) == point.line

\* for point in points: f.write(point.to_line_protocol() + '\n')
RECURSIVE PointsText(_)
PointsText(points) ==
    IF points = <<>> THEN <<>>
    ELSE to_line_protocol(Head(points)) \o <<NL>> \o PointsText(Tail(points))

\* write_to_file.write_points_to_txt: the file is opened with "w", what it
\* held is lost
write_to_file_write_points_to_txt(files, points, date_str, mode, now) ==
    (PointsTxtPath(date_str, mode, now) :> TextFile(PointsText(points))) @@ files

\* the records, the table configurations and the points of the harness; the
\* value of v2 holds a quote and a comma
FileRecords ==
    { [k \in ks |-> IF k = "Timelogged" THEN <<"t">>
                    ELSE IF k = "v1" THEN <<"1">> ELSE <<"\"", ",">>] :
          ks \in SUBSET {"Timelogged", "v1", "v2"} }
TableConfigs ==
    { <<>>, << <<"tbl", <<>> >> >>, << <<"tbl", <<"v1">> >> >>,
      << <<"tbl", <<"v1">> >>, <<"other", <<"v2", "v1">> >> >> }
FilePoints == { [line |-> <<"a">>], [line |-> <<"b">>] }

\* the arguments of the two calls
FileFrame(cleaned_data, table_config, points, mode) ==
    [cleaned_data |-> cleaned_data, table_config |-> table_config,
     points |-> points, mode |-> mode, date_str |-> DateFmtFile(1),
     csv_done |-> FALSE, txt_done |-> FALSE]

\* an output directory that is empty, or holds the text file of an earlier
\* run for the same date
InitFile ==
    /\ entry = "file"
    /\ pc = "running"
    /\ \E l \in ListsUpTo(FileRecords, MaxRecs), t \in TableConfigs,
          q \in ListsUpTo(FilePoints, MaxRecs), m \in {"daily", "live"} :
         args = FileFrame(l, t, q, m)
    /\ today = 1
    /\ units = <<>>
    /\ pd = NoFrame
    /\ pw = NoFrame
    /\ w = NoFrame
    /\ fs \in {<<>>,
               PointsTxtPath(DateFmtFile(1), "daily", "now") :> TextFile(<<"b", NL>>)}
    /\ store = <<>>
    /\ runs = {}
    /\ nextId = 1
    /\ clients = 0
    /\ clock = 0
    /\ hist = <<>>
    /\ sleeps = <<>>
    /\ bp = NoFrame
    /\ live = NoFrame
    /\ argv = NoFrame
    /\ schema = init_db_tables({})
    /\ dc = NoFrame
    /\ ft = NoFrame
    /\ procs = NoFrame

\* a call write_to_csv(cleaned_data, table_config, date_str)
file_csv ==
    /\ entry = "file"
    /\ ~args.csv_done
    /\ fs' = write_to_csv(fs, args.cleaned_data, args.table_config, args.date_str)
    /\ args' = [args EXCEPT !.csv_done = TRUE]
    /\ pc' = IF args.txt_done THEN "done" ELSE pc
    /\ UNCHANGED <<entry, today, units, pd, pw, w, store, runs, nextId, clients,
                   clock, hist, sleeps, bp, live, argv, schema, dc, ft, procs>>

\* a call write_points_to_txt(points, date_str, mode)
file_txt ==
    /\ entry = "file"
    /\ ~args.txt_done
    /\ fs' = write_to_file_write_points_to_txt(fs, args.points, args.date_str,
                                               args.mode, "now")
    /\ args' = [args EXCEPT !.txt_done = TRUE]
    /\ pc' = IF args.csv_done THEN "done" ELSE pc
    /\ UNCHANGED <<entry, today, units, pd, pw, w, store, runs, nextId, clients,
                   clock, hist, sleeps, bp, live, argv, schema, dc, ft, procs>>

NextFile == file_csv \/ file_txt

SpecFile == InitFile /\ [][NextFile]_vars

(***************************************************************************)
(* process_and_write: the returned count.                                  *)
(***************************************************************************)
\* C31: when process_and_write returns, the first component of its result
\* is the number of records of the list it was given, whatever the records
\* emitted and whatever db_write, override and retain_file are.
C31_CountIsInputRecords ==
    (entry = "pw" /\ pc = "done") =>
        /\ pw.ret # None
        /\ pw.ret[1] = Len(pw.cleaned_list)

\* C31 witness: a run of two records, one of which emitted no line, wrote
\* to the store, retained its file and returned.
C31_Witness ==
    /\ entry = "pw" /\ pc = "done"
    /\ Len(pw.cleaned_list) = 2
    /\ \E i \in 1..2 : pw.cleaned_list[i].out = <<>>
    /\ args.db_write /\ args.override /\ args.retain_file
    /\ Len(store) = 1

(***************************************************************************)
(* The sweep: a unit with no records.                                      *)
(***************************************************************************)
\* C33 (as claimed): a unit of a sweep whose payload decodes to an empty
\* record list completes without error (process_and_write returns for it)
\* and every ledger call of the unit carries success = True and
\* num_records = 0, whatever db_write, override and retain_file are.
C33_EmptyUnitSucceeds ==
    entry = "main" =>
        \A d \in Days, r \in Ranges :
            \A i \in At("pw_returned", d, r) \cup At("pw_raised", d, r) :
                hist[i][4] = 0 =>
                    /\ hist[i][1] = "pw_returned"
                    /\ \A l \in At("log_run", d, r) :
                         /\ hist[l][2].success
                         /\ hist[l][2].num_records = 0

(***************************************************************************)
(* The ledger: what one log_run call leaves alone.                         *)
(***************************************************************************)
\* the step is one log_run call
LogRunStep ==
    /\ Len(hist') = Len(hist) + 1
    /\ SubSeq(hist', 1, Len(hist)) = hist
    /\ hist'[Len(hist')][1] = "log_run"

\* C34: a log_run call for key k leaves every row of another
\* (date_run, range, mode) key as it was, all columns included, leaves one
\* row of key k, and the number of rows grows by one exactly when no row of
\* key k was there before the call and stays the same otherwise.
C34_LogRunTouchesOnlyItsKey ==
    [][(entry = "ledger" /\ LogRunStep) =>
          LET k == CallKey(hist'[Len(hist')][2])
              present == \E r \in runs : KeyOf(r) = k
          IN  /\ {r \in runs' : KeyOf(r) # k} = {r \in runs : KeyOf(r) # k}
              /\ Cardinality({r \in runs' : KeyOf(r) = k}) = 1
              /\ Cardinality(runs') =
                     Cardinality(runs) + (IF present THEN 0 ELSE 1)]_vars

\* C34 witness: the last call updated the row of a key logged before, in a
\* table that also holds the live row of the same date and range.
C34_Witness ==
    /\ entry = "ledger"
    /\ Len(LogRunCalls) >= 3
    /\ hist[Len(hist)][1] = "log_run"
    /\ LET k == CallKey(hist[Len(hist)][2])
       IN  /\ Cardinality({i \in 1..Len(LogRunCalls) :
                              CallKey(LogRunCalls[i][2]) = k}) >= 2
           /\ \E r \in runs :
                 /\ KeyOf(r) # k
                 /\ r.date_run = k[1] /\ r.range = k[2]

(***************************************************************************)
(* Live mode: the ledger step and the failures before it.                  *)
(***************************************************************************)
\* C35: in live mode the log_run call is made only after process_and_write
\* has returned; an iteration that ended in a failure of the decode, the
\* point building or the store write has made no ledger call and left no
\* ledger row, and every row the ledger holds has success = 1.
C35_LiveLedgerOnlyAfterReturn ==
    entry = "live" =>
        /\ pc = "live_log" => live.returned
        /\ live.logged # "no" => live.returned
        /\ (pc = "raised" /\ ~live.returned) =>
               /\ live.logged = "no"
               /\ runs = {}
        /\ \A r \in runs : r.success = 1

\* C35 witness: with --log-run, the store write of the live iteration
\* raised after the points were built, and the iteration is over.
C35_Witness ==
    /\ entry = "live" /\ pc = "raised"
    /\ args.log_run
    /\ live.cleaned /\ ~live.returned
    /\ pw # NoFrame /\ pw.built /\ pw.store_called
    /\ w # NoFrame /\ w.raised
    /\ Len(store) > 0

(***************************************************************************)
(* process_and_write: the timestamp of what reaches the intermediate file. *)
(***************************************************************************)
\* C36 (as claimed): whatever the record loop hands to the intermediate
\* file was built with the UTC instant of its record's Timelogged as its
\* timestamp: never with the unparsed string, never without an instant.
C36_HandedPointsCarryUtc ==
    (entry = "pw" /\ pc # "pw_start") =>
        \A i \in 1..Len(pw.handed) : pw.handed[i] = UtcInstant

(***************************************************************************)
(* write_to_influxdb: its store clients.                                   *)
(***************************************************************************)
\* C37 (as claimed): at most one store client is open at any time, and
\* when write_to_influxdb has returned or raised every client it opened is
\* closed, also after a batch write that failed.
C37_ClientsClosedAtExit ==
    entry = "writer" =>
        /\ clients <= 1
        /\ pc \in {"done", "raised"} => clients = 0

(***************************************************************************)
(* main: a start date after the end date.                                  *)
(***************************************************************************)
\* the command line gives a start date that is after its end date
StartAfterEnd ==
    /\ argv.startdate # NoDate /\ argv.enddate # NoDate
    /\ strptime(argv.startdate) > strptime(argv.enddate)

\* C38: a daily or range invocation whose start date is after its end date
\* ends with exit status 1 as soon as main has read the dates: no unit is
\* called or fetched, no file and no store write is made and the ledger
\* gets no row.
C38_StartAfterEndExits ==
    (entry = "main" /\ StartAfterEnd) =>
        /\ pc \in {"main", "exit1"}
        /\ hist = <<>> /\ units = <<>>
        /\ fs = <<>> /\ store = <<>>
        /\ runs = {} /\ clock = 0

\* C38 witness: the invocation has exited with status 1 on a command line
\* that asks for store writes, a retained file and ledger logging.
C38_Witness ==
    /\ entry = "main" /\ pc = "exit1"
    /\ StartAfterEnd
    /\ argv.db_write /\ argv.override /\ argv.retain_file /\ argv.log_run

====
